---- MODULE Spec2Model ----
(***************************************************************************)
(* Guitar tuner: the temporal stabilizer (PitchSmoother), the note         *)
(* mapping (frequencyToNote), the YIN period estimator (detectPitch) and   *)
(* the octave corrector (correctOctaveErrors).                             *)
(*                                                                         *)
(* Number representation.  The code computes in IEEE-754 doubles; the      *)
(* model computes in fixed point, rounding where the code rounds:          *)
(*   frequency   integer milli-hertz        (110 Hz = 110000)              *)
(*   clarity     integer thousandths        (0.85   = 850)                 *)
(*   cents       integer cents, 1200*log2 rounded to the nearest cent      *)
(*   time        integer milliseconds                                      *)
(* null is the empty sequence, a present value v is <<v>>.                 *)
(***************************************************************************)
EXTENDS Integers, Sequences, FiniteSets, TLC

Null == <<>>
Some(v) == <<v>>
Val(o) == o[1]

\* milli-hertz per hertz: the unit of every frequency of the model
MilliHz == 1000

Abs(x) == IF x < 0 THEN -x ELSE x

(***************************************************************************)
(* Math.log2, in cents.  HalfCentScale is the fixed-point one of the       *)
(* table; HalfCent[c] = round(HalfCentScale * 2^((c - 1/2)/1200)), so that *)
(* a ratio r in [1, 2) has round(1200*log2 r) >= c  iff                    *)
(* r * HalfCentScale >= HalfCent[c].                                       *)
(***************************************************************************)
HalfCentScale == 16384

HalfCent ==
  << 
      16389, 16398, 16408, 16417, 16427, 16436, 16446, 16455, 16465, 16474, 16484, 16493, 16503, 16512, 16522,
      16531, 16541, 16550, 16560, 16570, 16579, 16589, 16598, 16608, 16618, 16627, 16637, 16646, 16656, 16666,
      16675, 16685, 16694, 16704, 16714, 16723, 16733, 16743, 16752, 16762, 16772, 16781, 16791, 16801, 16811,
      16820, 16830, 16840, 16849, 16859, 16869, 16879, 16888, 16898, 16908, 16918, 16928, 16937, 16947, 16957,
      16967, 16976, 16986, 16996, 17006, 17016, 17026, 17035, 17045, 17055, 17065, 17075, 17085, 17095, 17104,
      17114, 17124, 17134, 17144, 17154, 17164, 17174, 17184, 17194, 17204, 17213, 17223, 17233, 17243, 17253,
      17263, 17273, 17283, 17293, 17303, 17313, 17323, 17333, 17343, 17353, 17363, 17373, 17383, 17393, 17403,
      17413, 17424, 17434, 17444, 17454, 17464, 17474, 17484, 17494, 17504, 17514, 17524, 17535, 17545, 17555,
      17565, 17575, 17585, 17595, 17606, 17616, 17626, 17636, 17646, 17657, 17667, 17677, 17687, 17697, 17708,
      17718, 17728, 17738, 17749, 17759, 17769, 17779, 17790, 17800, 17810, 17820, 17831, 17841, 17851, 17862,
      17872, 17882, 17893, 17903, 17913, 17924, 17934, 17944, 17955, 17965, 17976, 17986, 17996, 18007, 18017,
      18028, 18038, 18048, 18059, 18069, 18080, 18090, 18101, 18111, 18122, 18132, 18142, 18153, 18163, 18174,
      18184, 18195, 18205, 18216, 18227, 18237, 18248, 18258, 18269, 18279, 18290, 18300, 18311, 18321, 18332,
      18343, 18353, 18364, 18374, 18385, 18396, 18406, 18417, 18428, 18438, 18449, 18460, 18470, 18481, 18492,
      18502, 18513, 18524, 18534, 18545, 18556, 18567, 18577, 18588, 18599, 18609, 18620, 18631, 18642, 18653,
      18663, 18674, 18685, 18696, 18706, 18717, 18728, 18739, 18750, 18761, 18771, 18782, 18793, 18804, 18815,
      18826, 18837, 18847, 18858, 18869, 18880, 18891, 18902, 18913, 18924, 18935, 18946, 18957, 18968, 18979,
      18990, 19001, 19011, 19022, 19033, 19044, 19055, 19066, 19077, 19089, 19100, 19111, 19122, 19133, 19144,
      19155, 19166, 19177, 19188, 19199, 19210, 19221, 19232, 19243, 19255, 19266, 19277, 19288, 19299, 19310,
      19321, 19333, 19344, 19355, 19366, 19377, 19389, 19400, 19411, 19422, 19433, 19445, 19456, 19467, 19478,
      19490, 19501, 19512, 19523, 19535, 19546, 19557, 19569, 19580, 19591, 19602, 19614, 19625, 19636, 19648,
      19659, 19671, 19682, 19693, 19705, 19716, 19727, 19739, 19750, 19762, 19773, 19785, 19796, 19807, 19819,
      19830, 19842, 19853, 19865, 19876, 19888, 19899, 19911, 19922, 19934, 19945, 19957, 19968, 19980, 19991,
      20003, 20014, 20026, 20038, 20049, 20061, 20072, 20084, 20095, 20107, 20119, 20130, 20142, 20154, 20165,
      20177, 20189, 20200, 20212, 20224, 20235, 20247, 20259, 20270, 20282, 20294, 20306, 20317, 20329, 20341,
      20352, 20364, 20376, 20388, 20400, 20411, 20423, 20435, 20447, 20459, 20470, 20482, 20494, 20506, 20518,
      20530, 20541, 20553, 20565, 20577, 20589, 20601, 20613, 20625, 20637, 20649, 20660, 20672, 20684, 20696,
      20708, 20720, 20732, 20744, 20756, 20768, 20780, 20792, 20804, 20816, 20828, 20840, 20852, 20864, 20876,
      20888, 20901, 20913, 20925, 20937, 20949, 20961, 20973, 20985, 20997, 21009, 21022, 21034, 21046, 21058,
      21070, 21082, 21095, 21107, 21119, 21131, 21143, 21156, 21168, 21180, 21192, 21205, 21217, 21229, 21241,
      21254, 21266, 21278, 21290, 21303, 21315, 21327, 21340, 21352, 21364, 21377, 21389, 21401, 21414, 21426,
      21439, 21451, 21463, 21476, 21488, 21501, 21513, 21525, 21538, 21550, 21563, 21575, 21588, 21600, 21613,
      21625, 21638, 21650, 21663, 21675, 21688, 21700, 21713, 21725, 21738, 21750, 21763, 21775, 21788, 21801,
      21813, 21826, 21838, 21851, 21864, 21876, 21889, 21902, 21914, 21927, 21940, 21952, 21965, 21978, 21990,
      22003, 22016, 22028, 22041, 22054, 22067, 22079, 22092, 22105, 22118, 22131, 22143, 22156, 22169, 22182,
      22195, 22207, 22220, 22233, 22246, 22259, 22272, 22284, 22297, 22310, 22323, 22336, 22349, 22362, 22375,
      22388, 22401, 22414, 22426, 22439, 22452, 22465, 22478, 22491, 22504, 22517, 22530, 22543, 22556, 22569,
      22582, 22596, 22609, 22622, 22635, 22648, 22661, 22674, 22687, 22700, 22713, 22726, 22740, 22753, 22766,
      22779, 22792, 22805, 22819, 22832, 22845, 22858, 22871, 22885, 22898, 22911, 22924, 22937, 22951, 22964,
      22977, 22990, 23004, 23017, 23030, 23044, 23057, 23070, 23084, 23097, 23110, 23124, 23137, 23150, 23164,
      23177, 23191, 23204, 23217, 23231, 23244, 23258, 23271, 23285, 23298, 23311, 23325, 23338, 23352, 23365,
      23379, 23392, 23406, 23419, 23433, 23446, 23460, 23474, 23487, 23501, 23514, 23528, 23541, 23555, 23569,
      23582, 23596, 23610, 23623, 23637, 23651, 23664, 23678, 23692, 23705, 23719, 23733, 23746, 23760, 23774,
      23788, 23801, 23815, 23829, 23843, 23856, 23870, 23884, 23898, 23911, 23925, 23939, 23953, 23967, 23981,
      23995, 24008, 24022, 24036, 24050, 24064, 24078, 24092, 24106, 24120, 24134, 24147, 24161, 24175, 24189,
      24203, 24217, 24231, 24245, 24259, 24273, 24287, 24301, 24315, 24329, 24344, 24358, 24372, 24386, 24400,
      24414, 24428, 24442, 24456, 24470, 24485, 24499, 24513, 24527, 24541, 24555, 24570, 24584, 24598, 24612,
      24626, 24641, 24655, 24669, 24683, 24698, 24712, 24726, 24740, 24755, 24769, 24783, 24798, 24812, 24826,
      24841, 24855, 24869, 24884, 24898, 24913, 24927, 24941, 24956, 24970, 24985, 24999, 25013, 25028, 25042,
      25057, 25071, 25086, 25100, 25115, 25129, 25144, 25158, 25173, 25187, 25202, 25217, 25231, 25246, 25260,
      25275, 25289, 25304, 25319, 25333, 25348, 25363, 25377, 25392, 25407, 25421, 25436, 25451, 25465, 25480,
      25495, 25510, 25524, 25539, 25554, 25569, 25583, 25598, 25613, 25628, 25643, 25657, 25672, 25687, 25702,
      25717, 25732, 25746, 25761, 25776, 25791, 25806, 25821, 25836, 25851, 25866, 25881, 25896, 25911, 25925,
      25940, 25955, 25970, 25985, 26000, 26015, 26031, 26046, 26061, 26076, 26091, 26106, 26121, 26136, 26151,
      26166, 26181, 26196, 26212, 26227, 26242, 26257, 26272, 26287, 26303, 26318, 26333, 26348, 26363, 26379,
      26394, 26409, 26424, 26440, 26455, 26470, 26486, 26501, 26516, 26531, 26547, 26562, 26577, 26593, 26608,
      26624, 26639, 26654, 26670, 26685, 26701, 26716, 26731, 26747, 26762, 26778, 26793, 26809, 26824, 26840,
      26855, 26871, 26886, 26902, 26917, 26933, 26948, 26964, 26980, 26995, 27011, 27026, 27042, 27058, 27073,
      27089, 27105, 27120, 27136, 27152, 27167, 27183, 27199, 27214, 27230, 27246, 27262, 27277, 27293, 27309,
      27325, 27340, 27356, 27372, 27388, 27404, 27420, 27435, 27451, 27467, 27483, 27499, 27515, 27531, 27547,
      27562, 27578, 27594, 27610, 27626, 27642, 27658, 27674, 27690, 27706, 27722, 27738, 27754, 27770, 27786,
      27802, 27818, 27834, 27851, 27867, 27883, 27899, 27915, 27931, 27947, 27963, 27980, 27996, 28012, 28028,
      28044, 28060, 28077, 28093, 28109, 28125, 28142, 28158, 28174, 28190, 28207, 28223, 28239, 28256, 28272,
      28288, 28305, 28321, 28337, 28354, 28370, 28386, 28403, 28419, 28436, 28452, 28469, 28485, 28501, 28518,
      28534, 28551, 28567, 28584, 28600, 28617, 28634, 28650, 28667, 28683, 28700, 28716, 28733, 28750, 28766,
      28783, 28799, 28816, 28833, 28849, 28866, 28883, 28899, 28916, 28933, 28949, 28966, 28983, 29000, 29016,
      29033, 29050, 29067, 29084, 29100, 29117, 29134, 29151, 29168, 29185, 29201, 29218, 29235, 29252, 29269,
      29286, 29303, 29320, 29337, 29354, 29371, 29388, 29405, 29422, 29439, 29456, 29473, 29490, 29507, 29524,
      29541, 29558, 29575, 29592, 29609, 29626, 29643, 29660, 29678, 29695, 29712, 29729, 29746, 29763, 29781,
      29798, 29815, 29832, 29849, 29867, 29884, 29901, 29918, 29936, 29953, 29970, 29988, 30005, 30022, 30040,
      30057, 30074, 30092, 30109, 30127, 30144, 30161, 30179, 30196, 30214, 30231, 30249, 30266, 30284, 30301,
      30319, 30336, 30354, 30371, 30389, 30406, 30424, 30441, 30459, 30477, 30494, 30512, 30530, 30547, 30565,
      30582, 30600, 30618, 30635, 30653, 30671, 30689, 30706, 30724, 30742, 30760, 30777, 30795, 30813, 30831,
      30849, 30866, 30884, 30902, 30920, 30938, 30956, 30974, 30991, 31009, 31027, 31045, 31063, 31081, 31099,
      31117, 31135, 31153, 31171, 31189, 31207, 31225, 31243, 31261, 31279, 31297, 31315, 31333, 31352, 31370,
      31388, 31406, 31424, 31442, 31460, 31479, 31497, 31515, 31533, 31551, 31570, 31588, 31606, 31624, 31643,
      31661, 31679, 31698, 31716, 31734, 31753, 31771, 31789, 31808, 31826, 31844, 31863, 31881, 31900, 31918,
      31936, 31955, 31973, 31992, 32010, 32029, 32047, 32066, 32084, 32103, 32121, 32140, 32159, 32177, 32196,
      32214, 32233, 32252, 32270, 32289, 32308, 32326, 32345, 32364, 32382, 32401, 32420, 32438, 32457, 32476,
      32495, 32513, 32532, 32551, 32570, 32589, 32608, 32626, 32645, 32664, 32683, 32702, 32721, 32740, 32759
  >>

RECURSIVE CentsSearch(_, _, _, _)
\* the largest c in lo..hi with HalfCent[c]/HalfCentScale <= a/b (c = 0: none)
CentsSearch(a, b, lo, hi) ==
  IF lo = hi THEN lo
  ELSE IF b * HalfCent[(lo + hi + 1) \div 2] <= a * HalfCentScale
    THEN CentsSearch(a, b, (lo + hi + 1) \div 2, hi)
    ELSE CentsSearch(a, b, lo, (lo + hi + 1) \div 2 - 1)

RECURSIVE PosCents(_, _)
\* round(1200 * log2(a / b)) for a >= b > 0; operands are first brought to
\* 16 bits of mantissa, then reduced octave by octave
PosCents(a, b) ==
  IF b >= 65536 THEN PosCents(a \div 2, b \div 2)
  ELSE IF a >= 2 * b THEN 1200 + PosCents(a, 2 * b)
  ELSE CentsSearch(a, b, 0, 1200)

\* 1200 * Math.log2(a / b), rounded to the nearest cent
Log2Cents(a, b) == IF a >= b THEN PosCents(a, b) ELSE -PosCents(b, a)

(***************************************************************************)
(* tuner/note-mapping.ts                                                   *)
(***************************************************************************)
NOTE_NAMES == << "C", "C#", "D", "D#", "E", "F", "F#", "G", "G#", "A", "A#", "B" >>

A4_FREQUENCY == 440
A4_MIDI == 69

\* the JavaScript % operator: the remainder has the sign of the dividend
JsRem(a, n) == IF a >= 0 THEN a % n ELSE -((-a) % n)

\* Math.floor in the place of Math.round
FloorHundredths(x) == x \div 100

\* Math.round of a number given in hundredths: halves round towards +infinity
RoundHundredths(x) == (x + 50) \div 100

\* the NoteInfo of frequencyToNote, from midiFloat and midiRounded
NoteInfo(hz, midiFloat, midiRounded) ==
  [ note      |-> NOTE_NAMES[JsRem(JsRem(midiRounded, 12) + 12, 12) + 1],
    octave    |-> (midiRounded \div 12) - 1,
    cents     |-> midiFloat - 100 * midiRounded,
    frequency |-> hz ]

\* Math.round(midiFloat) and the rest of frequencyToNote
RoundMidi(hz, midiFloat) == NoteInfo(hz, midiFloat, RoundHundredths(midiFloat))

\* frequencyToNote(hz); midi numbers are carried in hundredths (cents)
frequencyToNote(hz) ==
  RoundMidi(hz, Log2Cents(hz, A4_FREQUENCY * MilliHz) + 100 * A4_MIDI)

(***************************************************************************)
(* audio/smoother.ts: PitchSmoother                                        *)
(***************************************************************************)
MEDIAN_WINDOW == 5
EMA_ALPHA == [num |-> 1, den |-> 10]
MIN_CLARITY == 850
STABILITY_WINDOW == 5
STABILITY_SPREAD_CENTS == 30
NOTE_CHANGE_CENTS == 150
HYSTERESIS_MS == 100

\* the fields of a PitchSmoother at construction
NewPitchSmoother ==
  [ medianBuffer         |-> << >>,
    emaFrequency         |-> Null,
    stabilityBuffer      |-> << >>,
    currentNote          |-> Null,
    currentOctave        |-> Null,
    pendingNote          |-> Null,
    pendingOctave        |-> Null,
    pendingNoteTimestamp |-> Null ]

\* reset as it was before the stability buffer existed: the buffer is kept
resetKeepsStability(this) ==
  [ this EXCEPT !.medianBuffer = << >>,
                !.emaFrequency = Null,
                !.currentNote = Null,
                !.currentOctave = Null,
                !.pendingNote = Null,
                !.pendingOctave = Null,
                !.pendingNoteTimestamp = Null ]

\* reset() that leaves the pending candidate in place
resetKeepsPending(this) ==
  [ this EXCEPT !.medianBuffer = << >>,
                !.emaFrequency = Null,
                !.stabilityBuffer = << >>,
                !.currentNote = Null,
                !.currentOctave = Null ]

\* reset(): the object after the call
reset(this) ==
  [ this EXCEPT !.medianBuffer = << >>,
                !.emaFrequency = Null,
                !.stabilityBuffer = << >>,
                !.currentNote = Null,
                !.currentOctave = Null,
                !.pendingNote = Null,
                !.pendingOctave = Null,
                !.pendingNoteTimestamp = Null ]

\* buf.push(x); if (buf.length > window) buf.pop()
PushPop(buf, x, window) ==
  LET pushed == Append(buf, x)
  IN  IF Len(pushed) > window THEN SubSeq(pushed, 1, window) ELSE pushed

\* buf.push(x); if (buf.length > window) buf.shift()
PushShift(buf, x, window) ==
  LET pushed == Append(buf, x)
  IN  IF Len(pushed) > window THEN Tail(pushed) ELSE pushed

Lesser(x, y) == IF x < y THEN x ELSE y
Greater(x, y) == IF x > y THEN x ELSE y

RECURSIVE SeqMin(_)
\* Math.min(...s)
SeqMin(s) ==
  IF Len(s) = 1 THEN s[1] ELSE Lesser(s[1], SeqMin(Tail(s)))

RECURSIVE SeqMax(_)
\* Math.max(...s)
SeqMax(s) ==
  IF Len(s) = 1 THEN s[1] ELSE Greater(s[1], SeqMax(Tail(s)))

\* stabilitySpreadCents() between the oldest and the newest reading only
stabilitySpreadCentsOfEnds(this) ==
  Abs(Log2Cents(this.stabilityBuffer[Len(this.stabilityBuffer)],
                this.stabilityBuffer[1]))

\* stabilitySpreadCents()
stabilitySpreadCents(this) ==
  Log2Cents(SeqMax(this.stabilityBuffer), SeqMin(this.stabilityBuffer))

RECURSIVE Insert(_, _)
Insert(sorted, x) ==
  IF sorted = << >> THEN << x >>
  ELSE IF x <= sorted[1] THEN << x >> \o sorted
  ELSE << sorted[1] >> \o Insert(Tail(sorted), x)

RECURSIVE Sort(_)
\* [...values].sort((a, b) => a - b)
Sort(values) ==
  IF values = << >> THEN << >> ELSE Insert(Sort(Tail(values)), values[1])

\* the middle of the sorted values: sorted[mid] in the code's indices from 0
Middle(sorted, mid) ==
  IF Len(sorted) % 2 # 0
    THEN sorted[mid + 1]
    ELSE (sorted[mid] + sorted[mid + 1]) \div 2

\* median(values); the mean of the two middle values is rounded to a whole
\* milli-hertz
median(values) == Middle(Sort(values), Len(values) \div 2)

\* ClarityGate with <= for <
ClarityGateInclusive(result) == result.clarity <= MIN_CLARITY

\* the clarity gate of process
ClarityGate(result) == result.clarity < MIN_CLARITY

\* the note-change detection with >= for >
NoteChangeInclusive(this, result) ==
  /\ this.emaFrequency # Null
  /\ Abs(Log2Cents(result.frequency, Val(this.emaFrequency))) >= NOTE_CHANGE_CENTS

\* the note-change detection of process
NoteChange(this, result) ==
  /\ this.emaFrequency # Null
  /\ Abs(Log2Cents(result.frequency, Val(this.emaFrequency))) > NOTE_CHANGE_CENTS

\* the convergence check of process, on a full stability buffer
Unstable(this) == stabilitySpreadCents(this) > STABILITY_SPREAD_CENTS

\* EmaStep that takes a missing EMA for 0 instead of starting at the median
EmaStepFromZero(emaFrequency, medianFreq) ==
  ( 2 * EMA_ALPHA.num * medianFreq
    + 2 * (EMA_ALPHA.den - EMA_ALPHA.num)
        * (IF emaFrequency = Null THEN 0 ELSE Val(emaFrequency))
    + EMA_ALPHA.den ) \div (2 * EMA_ALPHA.den)

\* the EMA step of process, rounded to a whole milli-hertz
EmaStep(emaFrequency, medianFreq) ==
  IF emaFrequency = Null
    THEN medianFreq
    ELSE ( 2 * EMA_ALPHA.num * medianFreq
           + 2 * (EMA_ALPHA.den - EMA_ALPHA.num) * Val(emaFrequency)
           + EMA_ALPHA.den ) \div (2 * EMA_ALPHA.den)

\* PendingElapsed that forgets to subtract the timestamp
PendingElapsedAbsolute(this, now) ==
  /\ this.pendingNoteTimestamp # Null
  /\ now >= HYSTERESIS_MS

\* PendingElapsed with > for >=
PendingElapsedStrict(this, now) ==
  /\ this.pendingNoteTimestamp # Null
  /\ now - Val(this.pendingNoteTimestamp) > HYSTERESIS_MS

\* the commit test of applyHysteresis
PendingElapsed(this, now) ==
  /\ this.pendingNoteTimestamp # Null
  /\ now - Val(this.pendingNoteTimestamp) >= HYSTERESIS_MS

\* applyHysteresis with the pending timer restarted by every call that maps
\* to another note than the current one
applyHysteresisRefreshing(this, newNote, newOctave, now) ==
  IF this.currentNote = Null \/ this.currentOctave = Null
    THEN [ this |-> [ this EXCEPT !.currentNote = Some(newNote),
                                  !.currentOctave = Some(newOctave),
                                  !.pendingNote = Null,
                                  !.pendingOctave = Null,
                                  !.pendingNoteTimestamp = Null ],
           note |-> newNote, octave |-> newOctave ]
  ELSE IF Some(newNote) = this.currentNote /\ Some(newOctave) = this.currentOctave
    THEN [ this |-> [ this EXCEPT !.pendingNote = Null,
                                  !.pendingOctave = Null,
                                  !.pendingNoteTimestamp = Null ],
           note |-> Val(this.currentNote), octave |-> Val(this.currentOctave) ]
  ELSE [ this |-> [ this EXCEPT !.pendingNote = Some(newNote),
                                !.pendingOctave = Some(newOctave),
                                !.pendingNoteTimestamp = Some(now) ],
         note |-> Val(this.currentNote), octave |-> Val(this.currentOctave) ]

\* applyHysteresis without the pending timer: the mapped note is adopted
\* at once
applyHysteresisImmediate(this, newNote, newOctave, now) ==
  [ this |-> [ this EXCEPT !.currentNote = Some(newNote),
                           !.currentOctave = Some(newOctave),
                           !.pendingNote = Null,
                           !.pendingOctave = Null,
                           !.pendingNoteTimestamp = Null ],
    note |-> newNote, octave |-> newOctave ]

\* applyHysteresis(newNote, newOctave, now): the object after the call and
\* the note and octave returned
applyHysteresis(this, newNote, newOctave, now) ==
  IF this.currentNote = Null \/ this.currentOctave = Null
    THEN [ this |-> [ this EXCEPT !.currentNote = Some(newNote),
                                  !.currentOctave = Some(newOctave),
                                  !.pendingNote = Null,
                                  !.pendingOctave = Null,
                                  !.pendingNoteTimestamp = Null ],
           note |-> newNote, octave |-> newOctave ]
  ELSE IF Some(newNote) = this.currentNote /\ Some(newOctave) = this.currentOctave
    THEN [ this |-> [ this EXCEPT !.pendingNote = Null,
                                  !.pendingOctave = Null,
                                  !.pendingNoteTimestamp = Null ],
           note |-> Val(this.currentNote), octave |-> Val(this.currentOctave) ]
  ELSE IF Some(newNote) # this.pendingNote \/ Some(newOctave) # this.pendingOctave
    THEN [ this |-> [ this EXCEPT !.pendingNote = Some(newNote),
                                  !.pendingOctave = Some(newOctave),
                                  !.pendingNoteTimestamp = Some(now) ],
           note |-> Val(this.currentNote), octave |-> Val(this.currentOctave) ]
  ELSE IF PendingElapsed(this, now)
    THEN [ this |-> [ this EXCEPT !.currentNote = Some(newNote),
                                  !.currentOctave = Some(newOctave),
                                  !.pendingNote = Null,
                                  !.pendingOctave = Null,
                                  !.pendingNoteTimestamp = Null ],
           note |-> newNote, octave |-> newOctave ]
  ELSE [ this |-> this,
         note |-> Val(this.currentNote), octave |-> Val(this.currentOctave) ]

\* the end of process: the hysteresis-resolved note and the value returned
Emit(displayNote, smoothedFreq, noteInfo, result) ==
  [ this |-> displayNote.this,
    out  |-> Some([ frequency |-> smoothedFreq,
                    clarity   |-> result.clarity,
                    note      |-> displayNote.note,
                    octave    |-> displayNote.octave,
                    cents     |-> noteInfo.cents ]) ]

\* process from the note mapping on
MapNote(this, smoothedFreq, noteInfo, result, now) ==
  Emit(applyHysteresis([ this EXCEPT !.emaFrequency = Some(smoothedFreq) ],
                       noteInfo.note, noteInfo.octave, now),
       smoothedFreq, noteInfo, result)

\* process from the EMA step on
Smooth(this, smoothedFreq, result, now) ==
  MapNote(this, smoothedFreq, frequencyToNote(smoothedFreq), result, now)

\* process from the median filter on: the readings are stable
Filter(this, medianBuffer, result, now) ==
  Smooth([ this EXCEPT !.medianBuffer = medianBuffer ],
         EmaStep(this.emaFrequency, median(medianBuffer)), result, now)

\* Collecting with <= for <
CollectingOffByOne(this) == Len(this.stabilityBuffer) <= STABILITY_WINDOW

\* the test that the stability buffer is not full yet
Collecting(this) == Len(this.stabilityBuffer) < STABILITY_WINDOW

\* Converge with the stability buffer cleared when the readings are spread
ConvergeClearing(this, result, now) ==
  IF Collecting(this) THEN [ this |-> this, out |-> Null ]
  ELSE IF Unstable(this)
    THEN [ this |-> [ this EXCEPT !.stabilityBuffer = << >> ], out |-> Null ]
  ELSE Filter(this, PushShift(this.medianBuffer, result.frequency, MEDIAN_WINDOW),
              result, now)

\* process once the reading is in the stability buffer
Converge(this, result, now) ==
  IF Collecting(this) THEN [ this |-> this, out |-> Null ]
  ELSE IF Unstable(this) THEN [ this |-> this, out |-> Null ]
  ELSE Filter(this, PushShift(this.medianBuffer, result.frequency, MEDIAN_WINDOW),
              result, now)

\* process after the note-change detection
Collect(this, result, now) ==
  Converge([ this EXCEPT !.stabilityBuffer =
               PushShift(@, result.frequency, STABILITY_WINDOW) ],
           result, now)

\* process with a clarity gate that leaves the stability buffer alone
processKeepingBuffer(this, result, now) ==
  IF ClarityGate(result)
    THEN [ this |-> this, out |-> Null ]
    ELSE Collect(IF NoteChange(this, result) THEN reset(this) ELSE this,
                 result, now)

\* process with a clarity gate that resets the stabilizer
processResettingOnSilence(this, result, now) ==
  IF ClarityGate(result)
    THEN [ this |-> reset(this), out |-> Null ]
    ELSE Collect(IF NoteChange(this, result) THEN reset(this) ELSE this,
                 result, now)

\* process(result, now): the object after the call and the value returned
process(this, result, now) ==
  IF ClarityGate(result)
    THEN [ this |-> [ this EXCEPT !.stabilityBuffer = << >> ], out |-> Null ]
    ELSE Collect(IF NoteChange(this, result) THEN reset(this) ELSE this,
                 result, now)

(***************************************************************************)
(* The YIN period estimator and the octave corrector.                      *)
(*                                                                         *)
(* A frame is a sequence of integer samples; buffer[i] of the code is      *)
(* At(buffer, i).  The CMND array holds thousandths (cmnd[0] = 1 is 1000), *)
(* rounded to the nearest, the scale of the clarity 1 - cmnd[tau]; an      *)
(* entry 0/0 of the code is NaN, and every comparison with NaN is false.   *)
(* An interpolated lag is in thousandths of a sample.  NaN also stands for *)
(* a frequency that is not a number.                                       *)
(***************************************************************************)
At(array, i) == array[i + 1]

\* the value of 0/0
NaN == -1

\* a < b and a >= b in IEEE-754: false when either side is NaN
Less(a, b) == a # NaN /\ b # NaN /\ a < b
AtLeast(a, b) == a # NaN /\ b # NaN /\ a >= b

\* a / b for b > 0, rounded to the nearest integer
RoundDiv(a, b) == (2 * a + b) \div (2 * b)

\* 1000 * a / b for a >= 0, b > 0, rounded to the nearest integer, by long
\* division
RoundMilli(a, b) == (a \div b) * 1000 + RoundDiv((a % b) * 1000, b)

RECURSIVE SquaredDeltas(_, _, _)
\* the sum of (buffer[i] - buffer[i + tau])^2 over i in 0..n-1
SquaredDeltas(buffer, tau, n) ==
  IF n = 0 THEN 0
  ELSE SquaredDeltas(buffer, tau, n - 1)
       + (At(buffer, n - 1) - At(buffer, n - 1 + tau))
         * (At(buffer, n - 1) - At(buffer, n - 1 + tau))

\* the difference function: At(difference(buffer, halfLen), tau) is d(tau)
difference(buffer, halfLen) ==
  [ t \in 1..halfLen |-> SquaredDeltas(buffer, t - 1, halfLen) ]

RECURSIVE runningSum(_, _)
\* runningSum after the iteration for tau: d(1) + ... + d(tau)
runningSum(diff, tau) ==
  IF tau = 0 THEN 0 ELSE runningSum(diff, tau - 1) + At(diff, tau)

\* cmnd[tau] = diff[tau] / (runningSum / tau), for tau >= 1
Normalized(d, sum, tau) ==
  IF sum = 0 THEN NaN ELSE RoundDiv(1000 * d * tau, sum)

Normalize(diff, halfLen) ==
  [ t \in 1..halfLen |->
      IF t = 1 THEN 1000
      ELSE Normalized(At(diff, t - 1), runningSum(diff, t - 1), t - 1) ]

cumulativeMeanNormalizedDifference(buffer, halfLen) ==
  Normalize(difference(buffer, halfLen), halfLen)

\* Math.floor(buffer.length / 2)
HalfLen(buffer) == Len(buffer) \div 2

DEFAULT_THRESHOLD == 150

RECURSIVE FirstAtMost(_, _, _, _)
\* the first lag from tau on with cmnd[lag] <= threshold, or -1
FirstAtMost(cmnd, halfLen, threshold, tau) ==
  IF tau >= halfLen THEN -1
  ELSE IF At(cmnd, tau) # NaN /\ At(cmnd, tau) <= threshold THEN tau
  ELSE FirstAtMost(cmnd, halfLen, threshold, tau + 1)

RECURSIVE FirstBelow(_, _, _, _)
\* the first lag from tau on with cmnd[lag] < threshold, or -1
FirstBelow(cmnd, halfLen, threshold, tau) ==
  IF tau >= halfLen THEN -1
  ELSE IF Less(At(cmnd, tau), threshold) THEN tau
  ELSE FirstBelow(cmnd, halfLen, threshold, tau + 1)

\* the walk to the local minimum, with the walk left out
FirstDip(cmnd, halfLen, tau) == tau

RECURSIVE LocalMinimum(_, _, _)
\* the walk to the local minimum
LocalMinimum(cmnd, halfLen, tau) ==
  IF tau + 1 < halfLen /\ Less(At(cmnd, tau + 1), At(cmnd, tau))
    THEN LocalMinimum(cmnd, halfLen, tau + 1)
    ELSE tau

WalkFrom(cmnd, halfLen, first) ==
  IF first = -1 THEN -1 ELSE LocalMinimum(cmnd, halfLen, first)

\* tauEstimate after the scan of detectPitch
TauEstimate(cmnd, halfLen, threshold) ==
  WalkFrom(cmnd, halfLen, FirstBelow(cmnd, halfLen, threshold, 2))

\* parabolicInterpolation that returns the lag as it is
parabolicInterpolationNone(cmnd, tau) == 1000 * tau

\* tau + (s0 - s2) / (2 * (s0 - 2 * s1 + s2)) for the numerator num and
\* the denominator den of the adjustment
Adjusted(tau, num, den) ==
  IF den = 0
    THEN IF num = 0 THEN NaN ELSE 1000 * tau
  ELSE IF Abs(num) > Abs(den) THEN 1000 * tau
  ELSE IF den > 0 THEN 1000 * tau + RoundDiv(1000 * num, den)
  ELSE 1000 * tau + RoundDiv(-1000 * num, -den)

Parabola(tau, s0, s1, s2) ==
  IF s0 = NaN \/ s1 = NaN \/ s2 = NaN THEN NaN
  ELSE Adjusted(tau, s0 - s2, 2 * (s0 - 2 * s1 + s2))

parabolicInterpolation(cmnd, tau) ==
  IF tau < 1 \/ tau >= Len(cmnd) - 1 THEN 1000 * tau
  ELSE Parabola(tau, At(cmnd, tau - 1), At(cmnd, tau), At(cmnd, tau + 1))

\* sampleRate / betterTau, in milli-hertz
FrequencyOf(sampleRate, betterTau) ==
  IF betterTau = NaN THEN NaN ELSE RoundMilli(sampleRate * 1000, betterTau)

\* the return value of detectPitch once tauEstimate is known
Detected(cmnd, sampleRate, tauEstimate) ==
  IF tauEstimate = -1 THEN Null
  ELSE Some([ frequency |->
                FrequencyOf(sampleRate,
                            parabolicInterpolation(cmnd, tauEstimate)),
              clarity |-> 1000 - At(cmnd, tauEstimate) ])

Selected(cmnd, sampleRate, tauEstimate) ==
  [ tauEstimate |-> tauEstimate,
    ret |-> Detected(cmnd, sampleRate, tauEstimate) ]

\* detectPitch, with the lag it selected
Estimate(cmnd, halfLen, sampleRate, threshold) ==
  Selected(cmnd, sampleRate, TauEstimate(cmnd, halfLen, threshold))

detectPitch(buffer, sampleRate, threshold) ==
  Estimate(cumulativeMeanNormalizedDifference(buffer, HalfLen(buffer)),
           HalfLen(buffer), sampleRate, threshold).ret

GUITAR_MIN_HZ == 75
GUITAR_MAX_HZ == 1400

\* Math.round(sampleRate / frequency), for a frequency > 0
LagT(sampleRate, frequency) ==
  (2 * MilliHz * sampleRate + frequency) \div (2 * frequency)

\* Math.round(sampleRate / (frequency / 2)), for a frequency > 0
Lag2T(sampleRate, frequency) ==
  (4 * MilliHz * sampleRate + frequency) \div (2 * frequency)

\* a < b * 0.5 in IEEE-754
LessThanHalf(a, b) == a # NaN /\ b # NaN /\ 2 * a < b

\* the test with the two lags exchanged
SubHarmonicWorse(cmnd, halfLen, lagT, lag2T) ==
  /\ lagT < halfLen
  /\ lag2T < halfLen
  /\ LessThanHalf(At(cmnd, lagT), At(cmnd, lag2T))

\* lagT < halfLen && lag2T < halfLen && cmnd[lag2T] < cmnd[lagT] * 0.5
SubHarmonicBetter(cmnd, halfLen, lagT, lag2T) ==
  /\ lagT < halfLen
  /\ lag2T < halfLen
  /\ LessThanHalf(At(cmnd, lag2T), At(cmnd, lagT))

\* whether correctOctaveErrors halves the frequency
Halves(cmnd, halfLen, sampleRate, frequency) ==
  /\ frequency # NaN
  /\ SubHarmonicBetter(cmnd, halfLen, LagT(sampleRate, frequency),
                       Lag2T(sampleRate, frequency))

\* the range test with && for ||
OutOfRangeBoth(halfMilliHz) ==
  /\ halfMilliHz < 2 * GUITAR_MIN_HZ * MilliHz
  /\ halfMilliHz > 2 * GUITAR_MAX_HZ * MilliHz

\* frequency < GUITAR_MIN_HZ || frequency > GUITAR_MAX_HZ, for a frequency
\* in half milli-hertz
OutOfRange(halfMilliHz) ==
  \/ halfMilliHz < 2 * GUITAR_MIN_HZ * MilliHz
  \/ halfMilliHz > 2 * GUITAR_MAX_HZ * MilliHz

\* the frequency in half milli-hertz, halved or not
Halved(frequency, halves) == IF halves THEN frequency ELSE 2 * frequency

\* x / 2 in milli-hertz: the half milli-hertz of an odd x is dropped
Half(x) == x \div 2

Clamp(result, halfMilliHz) ==
  IF result.frequency = NaN THEN Some(result)
  ELSE IF OutOfRange(halfMilliHz) THEN Null
  ELSE Some([ frequency |-> Half(halfMilliHz), clarity |-> result.clarity ])

Correct(result, cmnd, halfLen, sampleRate) ==
  Clamp(result,
        Halved(result.frequency,
               Halves(cmnd, halfLen, sampleRate, result.frequency)))

\* correctOctaveErrors with the range test made on the frequency passed in
correctOctaveErrorsClampFirst(result, buffer, sampleRate) ==
  IF OutOfRange(2 * result.frequency) THEN Null
  ELSE Some([ frequency |->
                Half(Halved(result.frequency,
                            Halves(cumulativeMeanNormalizedDifference(
                                     buffer, HalfLen(buffer)),
                                   HalfLen(buffer), sampleRate,
                                   result.frequency))),
              clarity |-> result.clarity ])

correctOctaveErrors(result, buffer, sampleRate) ==
  Correct(result,
          cumulativeMeanNormalizedDifference(buffer, HalfLen(buffer)),
          HalfLen(buffer), sampleRate)

(***************************************************************************)
(* The pipeline driven by a caller, as in runPipeline and tick: a frame of *)
(* samples handed to detectPitch and correctOctaveErrors, one              *)
(* PitchSmoother, the clock that supplies `now`, and what the caller       *)
(* observes of the calls it made.                                          *)
(***************************************************************************)
VARIABLES
  frame,      \* the frame of samples and its sample rate
  yin,        \* how far the frame got, and what the calls on it returned
  smoother,   \* the PitchSmoother object
  clock,      \* the time of the latest call or tick, in ms
  calls,      \* the number of process calls made
  call,       \* the latest call: its operation, and for process its arguments
  out,        \* what the latest process call returned (Null after reset)
  twin,       \* a PitchSmoother constructed at the latest reset() and fed the same calls
  twinOut,    \* what the twin returned to the latest call
  streak,     \* the identical confident readings fed since construction or reset()
  hold,       \* the latest episode of readings of another note than the displayed one
  cand,       \* the latest episode of smoothed frequencies of another note than the displayed one
  resetFrom,  \* the fields the latest reset() had to clear (Null: never called)
  lastShown,  \* the note of the latest output since construction or reset()
  recent,     \* the readings of the latest run of confident process calls, at most five
  capture,    \* the variables of createAudioCapture
  browser,    \* what the page holds for the capture: contexts, promises, frames
  tuner,      \* the TunerState passed to onState last
  tick,       \* what the latest step of the capture emitted and scheduled
  app         \* the App component: its capture handle and the captures it created

vars == << frame, yin, smoother, clock, calls, call, out, twin, twinOut,
           streak, hold, cand, resetFrom, lastShown, recent, capture, browser,
           tuner, tick, app >>

\* the variables of the capture session
session == << capture, browser, tuner, tick, app >>

\* the stabilizer and what is observed of it
stabilizer == << smoother, call, out, twin, twinOut, streak, hold, cand,
                 resetFrom, lastShown, recent >>

\* a (note, octave) pair when both are present, else Null
NoteOf(note, octave) ==
  IF note = Null \/ octave = Null THEN Null ELSE << Val(note), Val(octave) >>

\* the note displayed by a stabilizer
Displayed(this) == NoteOf(this.currentNote, this.currentOctave)

\* the note a frequency maps to
PairOf(noteInfo) == << noteInfo.note, noteInfo.octave >>
MappedNote(hz) == PairOf(frequencyToNote(hz))

Confident(result) == result.clarity >= MIN_CLARITY

\* the fields of a stabilizer that differ from their construction-time value
Dirty(this) ==
  { f \in DOMAIN NewPitchSmoother : this[f] # NewPitchSmoother[f] }

\* the reading is more than 150 cents from the EMA
Jumped(this, frequency) ==
  /\ this.emaFrequency # Null
  /\ Abs(Log2Cents(frequency, Val(this.emaFrequency))) > NOTE_CHANGE_CENTS

\* recent after process(result): the frequencies handed to the process
\* calls that immediately precede and include this one and all had clarity
\* >= MIN_CLARITY, oldest first and at most five, counted from
\* construction, from the latest reset(), or from the call whose reading
\* was more than 150 cents from the EMA; empty when this call had a lower
\* clarity
RecentStep(r, this, result) ==
  IF ~ Confident(result) THEN << >>
  ELSE IF Jumped(this, result.frequency)
    THEN << result.frequency >>
  ELSE IF Len(r) >= STABILITY_WINDOW
    THEN Append(Tail(r), result.frequency)
  ELSE Append(r, result.frequency)

NoStreak == [ n |-> 0, frequency |-> 0 ]
NoEpisode == [ phase |-> "none" ]

\* streak after process(result): n counts the calls since construction or
\* reset() while they all carry one frequency with clarity >= MIN_CLARITY;
\* n = -1 once they do not, or after the fifth
StreakStep(s, result) ==
  IF Confident(result) /\ s.n = 0
    THEN [ n |-> 1, frequency |-> result.frequency ]
  ELSE IF Confident(result) /\ s.n \in 1..4 /\ result.frequency = s.frequency
    THEN [ s EXCEPT !.n = @ + 1 ]
  ELSE [ n |-> -1, frequency |-> 0 ]

\* hold after process(result, now) on a stabilizer that displayed `shown`:
\* confident readings of a note y other than the displayed note x, first at
\* `since` and last at `last` (phase "Y"), then confident readings of x
\* (phase "back"); anything else ends the episode
HoldNext(h, shown, reading, now) ==
  IF h.phase = "Y" /\ reading = h.y THEN [ h EXCEPT !.last = now ]
  ELSE IF h.phase \in { "Y", "back" } /\ reading = h.x
    THEN [ h EXCEPT !.phase = "back" ]
  ELSE IF shown # Null /\ reading # shown
    THEN [ phase |-> "Y", x |-> shown, y |-> reading,
           since |-> now, last |-> now ]
  ELSE NoEpisode

HoldStep(h, shown, result, now) ==
  IF Confident(result)
    THEN HoldNext(h, shown, MappedNote(result.frequency), now)
    ELSE NoEpisode

\* cand after a process call at `now` that took the stabilizer from `pre`
\* to `post` and returned `ret`: outputs whose smoothed frequency maps to a
\* note y other than the displayed note x, first at `since` and last at
\* `last` (phase "Y"), then outputs whose smoothed frequency maps to x
\* (phase "back"); `shown` is the note the latest output carried and `prev`
\* the note its smoothed frequency mapped to.  A call that returns nothing
\* leaves the episode as it is, unless it dropped the EMA (the reset of the
\* note-change detection); an episode starts only when the previous output
\* mapped to the displayed note.
CandNext(c, was, mapped, shown, now) ==
  IF c.phase = "Y" /\ mapped = c.y
    THEN [ c EXCEPT !.last = now, !.shown = shown, !.prev = mapped ]
  ELSE IF c.phase \in { "Y", "back" } /\ mapped = c.x
    THEN [ c EXCEPT !.phase = "back", !.shown = shown, !.prev = mapped ]
  ELSE IF was # Null /\ mapped # was /\ c.prev = was
    THEN [ phase |-> "Y", x |-> was, y |-> mapped,
           since |-> now, last |-> now, shown |-> shown, prev |-> mapped ]
  ELSE [ phase |-> "none", prev |-> mapped ]

CandStep(c, pre, post, ret, now) ==
  IF ret = Null
    THEN IF pre.emaFrequency # Null /\ post.emaFrequency = Null
           THEN [ phase |-> "none", prev |-> Null ]
           ELSE c
    ELSE CandNext(c, Displayed(pre), MappedNote(Val(ret).frequency),
                  PairOf(Val(ret)), now)

\* a frame of silence, as the buffer is before the first capture
Silence(length) == [ i \in 1..length |-> 0 ]

\* the pipeline before its first call
Constructed ==
  /\ yin = [ stage |-> "frame" ]
  /\ smoother = NewPitchSmoother
  /\ clock = 0
  /\ calls = 0
  /\ call = [ op |-> "new" ]
  /\ out = Null
  /\ twin = NewPitchSmoother
  /\ twinOut = Null
  /\ streak = NoStreak
  /\ hold = NoEpisode
  /\ cand = [ phase |-> "none", prev |-> Null ]
  /\ resetFrom = Null
  /\ lastShown = Null
  /\ recent = << >>
  /\ capture = [ audioContext |-> Null, suspended |-> FALSE,
                 stream |-> "null", onended |-> FALSE, listener |-> FALSE,
                 rafId |-> Null, restarting |-> FALSE ]
  /\ browser = [ contexts |-> 0, media |-> { }, resumes |-> { },
                 frames |-> { }, requested |-> 0,
                 started |-> FALSE, stopped |-> FALSE ]
  /\ tuner = [ status |-> "idle" ]
  /\ tick = [ n |-> 0, first |-> FALSE, fresh |-> FALSE,
              states |-> << >>, frames |-> 0 ]
  /\ app = [ mount |-> "query", capture |-> Null, captures |-> << >>,
             cleaned |-> FALSE ]

\* const raw = detectPitch(buffer, sampleRate)
Detect ==
  /\ yin.stage = "frame"
  /\ yin' = [ stage |-> "detected",
              detected |-> Estimate(
                cumulativeMeanNormalizedDifference(frame.buffer,
                                                   HalfLen(frame.buffer)),
                HalfLen(frame.buffer), frame.sampleRate, DEFAULT_THRESHOLD) ]
  /\ UNCHANGED << frame, smoother, clock, calls, call, out, twin, twinOut,
                  streak, hold, cand, resetFrom, lastShown, recent,
                  session >>

\* the readings detectPitch returned for the frame
Raw == IF yin.detected.ret = Null THEN { } ELSE { Val(yin.detected.ret) }

\* correctOctaveErrors(result, buffer, sampleRate), for the reading
\* detectPitch returned or one of the given readings
CorrectOctave(readings) ==
  /\ yin.stage = "detected"
  /\ \E result \in Raw \cup readings :
       yin' = [ stage |-> "corrected",
                detected |-> yin.detected,
                result |-> result,
                ret |-> correctOctaveErrors(result, frame.buffer,
                                            frame.sampleRate) ]
  /\ UNCHANGED << frame, smoother, clock, calls, call, out, twin, twinOut,
                  streak, hold, cand, resetFrom, lastShown, recent,
                  session >>

\* the effect of smoother.process(result, now), which returned ret, and of
\* the same call on the twin, which returned tret
Processed(result, now, ret, tret) ==
  /\ smoother' = ret.this
  /\ calls' = calls + 1
  /\ call' = [ op |-> "process", result |-> result, now |-> now ]
  /\ out' = ret.out
  /\ twin' = tret.this
  /\ twinOut' = tret.out
  /\ streak' = StreakStep(streak, result)
  /\ hold' = HoldStep(hold, Displayed(smoother), result, now)
  /\ cand' = CandStep(cand, smoother, ret.this, ret.out, now)
  /\ lastShown' = IF ret.out = Null THEN lastShown
                  ELSE Some(PairOf(Val(ret.out)))
  /\ recent' = RecentStep(recent, smoother, result)
  /\ UNCHANGED resetFrom

\* smoother.process(result, now) called at time now
Called(result, now, ret, tret) ==
  /\ Processed(result, now, ret, tret)
  /\ clock' = now
  /\ UNCHANGED << frame, yin, session >>

\* smoother.process(result, now) with now = clock + step
Process(result, step) ==
  Called(result, clock + step,
         process(smoother, result, clock + step),
         process(twin, result, clock + step))

\* the effect of smoother.reset() on the stabilizer and its observers
Cleared ==
  /\ smoother' = reset(smoother)
  /\ call' = [ op |-> "reset" ]
  /\ out' = Null
  /\ twin' = NewPitchSmoother
  /\ twinOut' = Null
  /\ streak' = NoStreak
  /\ hold' = NoEpisode
  /\ cand' = [ phase |-> "none", prev |-> Null ]
  /\ resetFrom' = Some(Dirty(smoother))
  /\ lastShown' = Null
  /\ recent' = << >>

\* smoother.reset()
Reset ==
  /\ call.op = "process"
  /\ Cleared
  /\ UNCHANGED << frame, yin, clock, calls, session >>

\* at most maxCalls calls of process, with readings and time steps drawn
\* from the given sets
Feed(frequencies, clarities, steps, maxCalls) ==
  /\ calls < maxCalls
  /\ \E result \in [ frequency : frequencies, clarity : clarities ],
        step \in steps : Process(result, step)

(***************************************************************************)
(* SpecFrames: detectPitch and then correctOctaveErrors on every frame of  *)
(* FrameLength samples drawn from Samples and on three triangle waves, at  *)
(* two sample rates.  correctOctaveErrors is given the reading detectPitch *)
(* returned, or a reading of clarity 0.9 at one of GivenFrequencies.       *)
(***************************************************************************)
FrameLength == 8
Samples == { -1, 0, 1 }

\* a triangle wave of the given half period
Triangle(halfPeriod, length) ==
  [ i \in 1..length |-> Abs(((i - 1) % (2 * halfPeriod)) - halfPeriod) ]

Waves == { Triangle(6, 24), Triangle(6, 26), Triangle(6, 28) }
Frames == [ 1..FrameLength -> Samples ] \cup Waves
SampleRates == { 200, 4000 }
GivenFrequencies ==
  { 70000, 140000, 150000, 200000, 666666, 1400000, 2800000, 3000000 }
Readings == [ frequency : GivenFrequencies, clarity : { 900 } ]

InitFrames ==
  /\ Constructed
  /\ frame \in [ buffer : Frames, sampleRate : SampleRates ]

NextFrames == Detect \/ CorrectOctave(Readings)

SpecFrames == InitFrames /\ [][NextFrames]_vars

(***************************************************************************)
(* Spec: readings of A2, of A2 sixteen cents sharp and of C3, confident or *)
(* not, one frame (33 ms) apart, and reset() at any time.                  *)
(***************************************************************************)
MaxCalls == 10
Frequencies == { 110000, 111000, 130810 }
Clarities == { 840, 850, 950 }
Steps == { 33 }

Next ==
  \/ Feed(Frequencies, Clarities, Steps, MaxCalls)
  \/ Reset

Init ==
  /\ Constructed
  /\ frame = [ buffer |-> Silence(FrameLength),
               sampleRate |-> CHOOSE r \in SampleRates :
                                \A s \in SampleRates : r <= s ]

Spec == Init /\ [][Next]_vars

(***************************************************************************)
(* SpecTimes: confident readings of A2 and of A2 sixteen cents sharp, at   *)
(* timestamps 1, 33 or 100 ms apart, and reset() at any time.              *)
(***************************************************************************)
MaxTimesCalls == 6
TimesFrequencies == { 110000, 111000 }
TimesSteps == { 1, 33, 100 }

NextTimes ==
  \/ Feed(TimesFrequencies, { 850, 950 }, TimesSteps, MaxTimesCalls)
  \/ Reset

SpecTimes == Init /\ [][NextTimes]_vars

(***************************************************************************)
(* SpecFlicker: confident readings 15 ms apart, of A2 just below the       *)
(* A2/A#2 boundary, of A#2 just above it, of A2 well below it, and of C3.  *)
(***************************************************************************)
MaxFlickerCalls == 10
FlickerFrequencies == { 112000, 113180, 113300, 130810 }
FlickerSteps == { 15 }

NextFlicker == Feed(FlickerFrequencies, { 950 }, FlickerSteps, MaxFlickerCalls)

SpecFlicker == Init /\ [][NextFlicker]_vars

(***************************************************************************)
(* SpecHold: confident readings 50 ms apart, around the A2/A#2 boundary    *)
(* and of C3.                                                              *)
(***************************************************************************)
MaxHoldCalls == 10
HoldFrequencies == { 113180, 113300, 130810 }
HoldSteps == { 50 }

NextHold == Feed(HoldFrequencies, { 950 }, HoldSteps, MaxHoldCalls)

SpecHold == Init /\ [][NextHold]_vars

(***************************************************************************)
(* SpecNotes: frequencyToNote applied to the frequencies 2.5 Hz, 5 Hz, ... *)
(* up to MaxNoteSteps times 2.5 Hz.                                        *)
(***************************************************************************)
MaxNoteSteps == 600
NoteFrequencies == { 2500 * k : k \in 1..MaxNoteSteps }

\* frequencyToNote(hz)
MapFrequency(frequencies) ==
  /\ \E hz \in frequencies :
       /\ call' = [ op |-> "frequencyToNote", hz |-> hz ]
       /\ out' = Some(frequencyToNote(hz))
  /\ UNCHANGED << frame, yin, smoother, clock, calls, twin, twinOut, streak,
                  hold, cand, resetFrom, lastShown, recent, session >>

NextNotes == MapFrequency(NoteFrequencies)

SpecNotes == Init /\ [][NextNotes]_vars

(***************************************************************************)
(* SpecJump: confident readings 33 ms apart of A2, of a frequency 150      *)
(* cents above A2 and of one 151 cents above A2.                           *)
(***************************************************************************)
MaxJumpCalls == 8
JumpFrequencies == { 110000, 119955, 120030 }
JumpSteps == { 33 }

NextJump == Feed(JumpFrequencies, { 950 }, JumpSteps, MaxJumpCalls)

SpecJump == Init /\ [][NextJump]_vars

(***************************************************************************)
(* SpecSpread: confident readings 33 ms apart of A2 and of frequencies 140 *)
(* and 155 cents above A2.                                                 *)
(***************************************************************************)
MaxSpreadCalls == 10
SpreadFrequencies == { 110000, 119264, 120303 }
SpreadSteps == { 33 }

NextSpread == Feed(SpreadFrequencies, { 950 }, SpreadSteps, MaxSpreadCalls)

SpecSpread == Init /\ [][NextSpread]_vars

(***************************************************************************)
(* createAudioCapture: the session around the pipeline.  capture holds the *)
(* variables of the closure; browser holds the AudioContexts created, the  *)
(* getUserMedia and resume() promises not yet settled, and the animation   *)
(* frames requested and not yet run or cancelled.  An async function runs  *)
(* to its first await in the step that calls it, and from a settled        *)
(* promise to its end in a later step.  A world w is the pair of the two,  *)
(* with the states handed to onState, the calls of smoother.reset() and    *)
(* the frames requested so far in the step.                                *)
(***************************************************************************)
World ==
  [ c |-> capture, b |-> browser, states |-> << >>, resets |-> 0,
    frames |-> 0, fresh |-> tick.fresh ]

\* onState(state)
onState(w, state) == [ w EXCEPT !.states = Append(@, state) ]

\* teardown() without the smoother.reset() of its last line
teardownKeepingSmoother(w) ==
  [ w EXCEPT !.b.frames = IF w.c.rafId = Null THEN @
                          ELSE @ \ { Val(w.c.rafId) },
             !.c.rafId = Null,
             !.c.listener = FALSE,
             !.c.onended = FALSE,
             !.c.stream = "null",
             !.c.audioContext = Null,
             !.c.suspended = FALSE,
             !.fresh = FALSE ]

\* teardown()
teardown(w) ==
  [ w EXCEPT !.b.frames = IF w.c.rafId = Null THEN @
                          ELSE @ \ { Val(w.c.rafId) },
             !.c.rafId = Null,
             !.c.listener = FALSE,
             !.c.onended = FALSE,
             !.c.stream = "null",
             !.c.audioContext = Null,
             !.c.suspended = FALSE,
             !.resets = @ + 1,
             !.fresh = FALSE ]

\* rafId = requestAnimationFrame(tick)
requestAnimationFrame(w) ==
  [ w EXCEPT !.b.requested = @ + 1,
             !.b.frames = @ \cup { w.b.requested + 1 },
             !.c.rafId = Some(w.b.requested + 1),
             !.frames = @ + 1 ]

\* start() up to its await: a new AudioContext, and a getUserMedia pending
\* for the caller ("app" or "restart"), told from the other pending ones by
\* the AudioContext created with it
start(w, caller) ==
  [ w EXCEPT !.b.contexts = @ + 1,
             !.b.media = @ \cup { [ caller  |-> caller,
                                    context |-> w.b.contexts + 1 ] },
             !.c.audioContext = Some(w.b.contexts + 1),
             !.c.suspended = FALSE ]

\* what the caller of start() does once start() has settled: restart()
\* reports a failure and clears its flag, the App does nothing
Settle(w, caller, failed) ==
  IF caller = "restart"
    THEN [ (IF failed THEN onState(w, [ status |-> "idle" ]) ELSE w)
             EXCEPT !.c.restarting = FALSE ]
    ELSE w

\* start() after getUserMedia resolved with a stream
Started(w, caller) ==
  LET streaming == [ w EXCEPT !.c.stream = "live" ] IN
    IF streaming.c.audioContext = Null
      THEN Settle(teardown(streaming), caller, TRUE)
      ELSE Settle(
             [ requestAnimationFrame(
                 onState([ streaming EXCEPT !.c.onended = TRUE,
                                            !.c.listener = TRUE ],
                         [ status |-> "listening" ]))
               EXCEPT !.fresh = TRUE ],
             caller, FALSE)

\* start() after getUserMedia rejected
Failed(w, caller) == Settle(teardown(w), caller, TRUE)

\* restart() without the guard of its first line
restartReentrant(w) ==
  start(teardown([ w EXCEPT !.c.restarting = TRUE ]), "restart")

\* restart() up to the await in start()
restart(w) ==
  IF w.c.restarting THEN w
  ELSE start(teardown([ w EXCEPT !.c.restarting = TRUE ]), "restart")

\* handleResume() up to its first await
handleResume(w) ==
  IF w.c.audioContext = Null \/ w.c.stream = "null" THEN w
  ELSE IF w.c.stream # "live" THEN restart(w)
  ELSE IF w.c.suspended
    THEN [ w EXCEPT !.b.resumes = @ \cup { Val(w.c.audioContext) } ]
  ELSE w

\* stop()
stop(w) == onState(teardown(w), [ status |-> "idle" ])

\* the state tick hands to onState for a SmoothedResult
DetectedState(smoothed) ==
  [ status    |-> "detected",
    note      |-> smoothed.note,
    octave    |-> smoothed.octave,
    cents     |-> smoothed.cents,
    frequency |-> smoothed.frequency,
    clarity   |-> smoothed.clarity ]

\* tick() without the return that ends the detected branch
tickFallingThrough(w, smoothed) ==
  IF smoothed # Null
    THEN requestAnimationFrame(onState(
           requestAnimationFrame(onState(w, DetectedState(Val(smoothed)))),
           [ status |-> "listening" ]))
    ELSE requestAnimationFrame(onState(w, [ status |-> "listening" ]))

\* tick() once smoother.process has returned, or has been skipped
tickReport(w, smoothed) ==
  IF smoothed # Null
    THEN requestAnimationFrame(onState(w, DetectedState(Val(smoothed))))
    ELSE requestAnimationFrame(onState(w, [ status |-> "listening" ]))

\* the step leaves the session as the world w, whatever it did to the
\* stabilizer
Left(w) ==
  /\ capture' = w.c
  /\ browser' = w.b
  /\ tuner' = IF w.states = << >> THEN tuner ELSE w.states[Len(w.states)]
  /\ UNCHANGED app

\* a step other than a tick leaves the world w
Stepped(w) ==
  /\ Left(w)
  /\ tick' = [ tick EXCEPT !.fresh = w.fresh, !.states = w.states,
                           !.frames = w.frames ]
  /\ IF w.resets > 0 THEN Cleared ELSE UNCHANGED stabilizer
  /\ UNCHANGED << frame, yin, clock, calls >>

\* the App calls capture.start(), once for the capture it created
AppStart(maxContexts) ==
  /\ ~ browser.started
  /\ browser.contexts < maxContexts
  /\ Stepped(start([ World EXCEPT !.b.started = TRUE ], "app"))

\* the App calls capture.stop() on cleanup
Stop ==
  /\ browser.started
  /\ ~ browser.stopped
  /\ Stepped(stop([ World EXCEPT !.b.stopped = TRUE ]))

\* getUserMedia resolves
GetUserMediaResolves ==
  \E pending \in browser.media :
    Stepped(Started([ World EXCEPT !.b.media = @ \ { pending } ],
                    pending.caller))

\* getUserMedia rejects
GetUserMediaRejects ==
  \E pending \in browser.media :
    Stepped(Failed([ World EXCEPT !.b.media = @ \ { pending } ],
                   pending.caller))

\* the page becomes visible: onVisibilityChange()
Visible(maxContexts) ==
  /\ capture.listener
  /\ browser.contexts < maxContexts
  /\ Stepped(handleResume(World))

\* the system suspends the AudioContext
Suspend ==
  /\ capture.audioContext # Null
  /\ ~ capture.suspended
  /\ Stepped([ World EXCEPT !.c.suspended = TRUE ])

\* a track of the stream ends and its onended handler runs
TrackEnded(maxContexts) ==
  /\ capture.stream = "live"
  /\ capture.onended
  /\ browser.contexts < maxContexts
  /\ Stepped(restart([ World EXCEPT !.c.stream = "ended" ]))

\* the system kills the tracks of the stream without an event
TrackKilled ==
  /\ capture.stream = "live"
  /\ Stepped([ World EXCEPT !.c.stream = "ended" ])

\* audioContext.resume() resolves: the context is open and now runs
ResumeResolves ==
  \E context \in browser.resumes :
    /\ capture.audioContext = Some(context)
    /\ Stepped([ World EXCEPT !.b.resumes = @ \ { context },
                              !.c.suspended = FALSE ])

\* audioContext.resume() rejects, as it does on a closed context
ResumeRejects(maxContexts) ==
  \E context \in browser.resumes :
    /\ browser.contexts < maxContexts
    /\ Stepped(restart([ World EXCEPT !.b.resumes = @ \ { context } ]))

\* detectPitch on a buffer, and correctOctaveErrors on what it returned
Analysed(buffer, sampleRate) ==
  LET detected ==
        Estimate(cumulativeMeanNormalizedDifference(buffer, HalfLen(buffer)),
                 HalfLen(buffer), sampleRate, DEFAULT_THRESHOLD)
  IN  [ detected  |-> detected,
        corrected |-> IF detected.ret = Null THEN Null
                      ELSE correctOctaveErrors(Val(detected.ret), buffer,
                                               sampleRate) ]

\* an animation frame runs tick() on the buffer the analyser filled;
\* analysis maps each buffer the analyser may fill to what the first two
\* stages return for it at the sample rate of the session
Tick(analysis, steps, maxTicks) ==
  /\ tick.n < maxTicks
  /\ \E id \in browser.frames, buffer \in DOMAIN analysis, step \in steps :
       LET now == clock + step
           detected == analysis[buffer].detected
           raw == detected.ret
           corrected == analysis[buffer].corrected
           ret ==
             IF corrected = Null THEN [ this |-> smoother, out |-> Null ]
             ELSE process(smoother, Val(corrected), now)
           tret ==
             IF corrected = Null THEN [ this |-> twin, out |-> Null ]
             ELSE process(twin, Val(corrected), now)
           w == tickReport([ World EXCEPT !.b.frames = @ \ { id } ], ret.out)
       IN  /\ frame' = [ frame EXCEPT !.buffer = buffer ]
           /\ yin' = IF raw = Null
                       THEN [ stage |-> "detected", detected |-> detected ]
                       ELSE [ stage |-> "corrected", detected |-> detected,
                              result |-> Val(raw), ret |-> corrected ]
           /\ clock' = now
           /\ IF corrected = Null
                THEN UNCHANGED << calls, stabilizer >>
                ELSE Processed(Val(corrected), now, ret, tret)
           /\ Left(w)
           /\ tick' = [ n |-> tick.n + 1, first |-> tick.fresh,
                        fresh |-> FALSE, states |-> w.states,
                        frames |-> w.frames ]

(***************************************************************************)
(* SpecCapture: one capture of the App at 4000 samples a second, its ticks *)
(* 17 ms apart on silence, on a wave above the guitar range and on a wave   *)
(* of 334 Hz, with the page and the system acting at any time.             *)
(***************************************************************************)
MaxTicks == 6
MaxContexts == 3
TickLength == 28
TickFrames ==
  { Silence(TickLength), Triangle(1, TickLength), Triangle(6, TickLength) }
TickSteps == { 17 }
TickSampleRate == CHOOSE r \in SampleRates : \A s \in SampleRates : r >= s
TickAnalysis == [ buffer \in TickFrames |-> Analysed(buffer, TickSampleRate) ]

NextCapture ==
  \/ AppStart(MaxContexts)
  \/ Stop
  \/ GetUserMediaResolves
  \/ GetUserMediaRejects
  \/ Visible(MaxContexts)
  \/ Suspend
  \/ TrackEnded(MaxContexts)
  \/ TrackKilled
  \/ ResumeResolves
  \/ ResumeRejects(MaxContexts)
  \/ Tick(TickAnalysis, TickSteps, MaxTicks)

InitCapture ==
  /\ Constructed
  /\ frame = [ buffer |-> Silence(TickLength), sampleRate |-> TickSampleRate ]

SpecCapture == InitCapture /\ [][NextCapture]_vars

(***************************************************************************)
(* SpecSine: detectPitch on frames that hold a sine, at 4000 samples a     *)
(* second.  A tone advances by k degrees a sample from a start phase: its  *)
(* period is 360 / k samples and its frequency sampleRate * k / 360.  The  *)
(* samples are SineAmplitude * sin, rounded to integers.                   *)
(***************************************************************************)
SineLength == 64
SineAmplitude == 20

\* 10000 * sin(d degrees) for d = 0..90, rounded
SinTable ==
  << 0, 175, 349, 523, 698, 872, 1045, 1219, 1392, 1564,
     1736, 1908, 2079, 2250, 2419, 2588, 2756, 2924, 3090, 3256,
     3420, 3584, 3746, 3907, 4067, 4226, 4384, 4540, 4695, 4848,
     5000, 5150, 5299, 5446, 5592, 5736, 5878, 6018, 6157, 6293,
     6428, 6561, 6691, 6820, 6947, 7071, 7193, 7314, 7431, 7547,
     7660, 7771, 7880, 7986, 8090, 8192, 8290, 8387, 8480, 8572,
     8660, 8746, 8829, 8910, 8988, 9063, 9135, 9205, 9272, 9336,
     9397, 9455, 9511, 9563, 9613, 9659, 9703, 9744, 9781, 9816,
     9848, 9877, 9903, 9925, 9945, 9962, 9976, 9986, 9994, 9998,
     10000 >>

\* 10000 * sin(d degrees) for d >= 0
SinDeg(d) ==
  LET r == d % 360 IN
    IF r <= 90 THEN SinTable[r + 1]
    ELSE IF r <= 180 THEN SinTable[180 - r + 1]
    ELSE IF r <= 270 THEN - SinTable[r - 180 + 1]
    ELSE - SinTable[360 - r + 1]

\* amplitude * v / 10000, rounded to the nearest integer
Scaled(amplitude, v) ==
  IF v >= 0 THEN RoundDiv(amplitude * v, 10000)
  ELSE - RoundDiv(amplitude * (- v), 10000)

\* a frame that holds the tone
Sine(tone, amplitude, length) ==
  [ i \in 1..length |->
      Scaled(amplitude, SinDeg(tone.phase + tone.k * (i - 1))) ]

SineSteps == (12..22) \cup { 24, 30, 45, 144 }
SinePhases == { 0, 30, 60, 90, 135, 200, 270, 315 }
Tones == [ k : SineSteps, phase : SinePhases ]
SineFrame == [ tone \in Tones |-> Sine(tone, SineAmplitude, SineLength) ]

InitSine ==
  /\ Constructed
  /\ \E tone \in Tones :
       frame = [ buffer |-> SineFrame[tone], sampleRate |-> TickSampleRate ]

NextSine == Detect

SpecSine == InitSine /\ [][NextSine]_vars

(***************************************************************************)
(* SpecStable: up to MaxStableCalls process calls and reset() between      *)
(* them, with readings of A2 and of two frequencies 140 and 155 cents      *)
(* above it, 15 cents apart, of clarity below and above the gate.          *)
(***************************************************************************)
MaxStableCalls == 9
StableClarities == { 840, 950 }

NextStable ==
  \/ Feed(SpreadFrequencies, StableClarities, SpreadSteps, MaxStableCalls)
  \/ Reset

SpecStable == Init /\ [][NextStable]_vars

(***************************************************************************)
(* SpecPending: up to MaxPendingCalls process calls 50 ms apart and         *)
(* reset() between them, with readings around the A2/A#2 boundary, of A2   *)
(* and of C3, of clarity below and above the gate.                         *)
(***************************************************************************)
MaxPendingCalls == 9
PendingFrequencies == { 110000, 113180, 113300, 130810 }
PendingClarities == { 840, 950 }

NextPending ==
  \/ Feed(PendingFrequencies, PendingClarities, HoldSteps, MaxPendingCalls)
  \/ Reset

SpecPending == Init /\ [][NextPending]_vars

(***************************************************************************)
(* SpecClarity: detectPitch with a threshold drawn from Thresholds on      *)
(* every frame of Frames at two sample rates, and for the default          *)
(* threshold the rest of the pipeline of tick: correctOctaveErrors on the  *)
(* reading returned, then process on a new stabilizer.                     *)
(***************************************************************************)
Thresholds == { 50, DEFAULT_THRESHOLD, 500, 1000 }
MaxClarityCalls == 1

\* detectPitch(buffer, sampleRate, threshold)
DetectAt ==
  /\ yin.stage = "frame"
  /\ yin' = [ stage |-> "detected",
              detected |-> Estimate(
                cumulativeMeanNormalizedDifference(frame.buffer,
                                                   HalfLen(frame.buffer)),
                HalfLen(frame.buffer), frame.sampleRate, frame.threshold) ]
  /\ UNCHANGED << frame, clock, calls, stabilizer, session >>

\* smoother.process(corrected) of tick, which calls detectPitch with the
\* default threshold
ProcessCorrected(steps, maxCalls) ==
  /\ yin.stage = "corrected"
  /\ yin.ret # Null
  /\ yin.result \in Raw
  /\ frame.threshold = DEFAULT_THRESHOLD
  /\ calls < maxCalls
  /\ \E step \in steps : Process(Val(yin.ret), step)

NextClarity ==
  \/ DetectAt
  \/ CorrectOctave({ })
  \/ ProcessCorrected(TickSteps, MaxClarityCalls)

InitClarity ==
  /\ Constructed
  /\ frame \in [ buffer : Frames, sampleRate : SampleRates,
                  threshold : Thresholds ]

SpecClarity == InitClarity /\ [][NextClarity]_vars

(***************************************************************************)
(* SpecApp: the App component and the captures it creates.  app.capture is *)
(* the handle `capture` of the component and app.captures[i] the i-th      *)
(* capture created: whether its getUserMedia is pending and whether it     *)
(* holds an AudioContext, a stream and a frame request.  tuner is the      *)
(* signal `state`, which every capture sets through onState.  Each capture *)
(* is reduced to start, tick and stop; its recovery paths are the subject  *)
(* of SpecCapture.                                                         *)
(***************************************************************************)
MaxCaptures == 3

\* createAudioCapture(setState), then start() up to its await
Created ==
  [ pending |-> TRUE, audioContext |-> TRUE, stream |-> FALSE,
    rafId |-> FALSE ]

\* teardown() of one capture; a pending getUserMedia stays pending
Released(c) ==
  [ c EXCEPT !.audioContext = FALSE, !.stream = FALSE, !.rafId = FALSE ]

\* a SmoothedResult, as tick hands it to onState
Smoothed ==
  [ frequency |-> MilliHz * A4_FREQUENCY, clarity |-> 950, note |-> "A",
    octave |-> 4, cents |-> 0 ]

\* the steps of SpecApp leave the pipeline and the single capture alone
AppStep ==
  UNCHANGED << frame, yin, clock, calls, stabilizer, capture, browser, tick >>

\* startCapture() / handleStart(), up to the await in capture.start(): the
\* component a after the call
startCapture(a) ==
  IF tuner.status # "idle" THEN a
  ELSE [ a EXCEPT !.captures = Append(@, Created),
                  !.capture = Some(Len(a.captures) + 1) ]

\* a click on the tuner
Click(maxCaptures) ==
  /\ ~ app.cleaned
  /\ Len(app.captures) < maxCaptures
  /\ app' = startCapture(app)
  /\ UNCHANGED tuner
  /\ AppStep

\* onMount: micAlreadyGranted() resolves with true, and startCapture runs
MountGranted(maxCaptures) ==
  /\ app.mount = "query"
  /\ ~ app.cleaned
  /\ Len(app.captures) < maxCaptures
  /\ app' = startCapture([ app EXCEPT !.mount = "done" ])
  /\ UNCHANGED tuner
  /\ AppStep

\* onMount: micAlreadyGranted() resolves with false
MountDenied ==
  /\ app.mount = "query"
  /\ app' = [ app EXCEPT !.mount = "done" ]
  /\ UNCHANGED tuner
  /\ AppStep

\* getUserMedia of capture i resolves: start() goes on, or throws and tears
\* down when stop() has cleared audioContext
Granted ==
  \E i \in 1..Len(app.captures) :
    /\ app.captures[i].pending
    /\ IF app.captures[i].audioContext
         THEN /\ app' = [ app EXCEPT !.captures[i] =
                            [ pending |-> FALSE, audioContext |-> TRUE,
                              stream |-> TRUE, rafId |-> TRUE ] ]
              /\ tuner' = [ status |-> "listening" ]
         ELSE /\ app' = [ app EXCEPT !.captures[i] =
                            [ Released(@) EXCEPT !.pending = FALSE ] ]
              /\ UNCHANGED tuner
    /\ AppStep

\* getUserMedia of capture i rejects: start() tears down and throws
Denied ==
  \E i \in 1..Len(app.captures) :
    /\ app.captures[i].pending
    /\ app' = [ app EXCEPT !.captures[i] =
                  [ Released(@) EXCEPT !.pending = FALSE ] ]
    /\ UNCHANGED tuner
    /\ AppStep

\* an animation frame of capture i runs tick()
Frame ==
  \E i \in 1..Len(app.captures) :
    /\ app.captures[i].rafId
    /\ tuner' \in { [ status |-> "listening" ], DetectedState(Smoothed) }
    /\ UNCHANGED app
    /\ AppStep

\* onCleanup(() => capture?.stop())
Cleanup ==
  /\ ~ app.cleaned
  /\ IF app.capture = Null
       THEN app' = [ app EXCEPT !.cleaned = TRUE ] /\ UNCHANGED tuner
       ELSE /\ app' = [ app EXCEPT !.cleaned = TRUE,
                                   !.captures[Val(app.capture)] = Released(@) ]
            /\ tuner' = [ status |-> "idle" ]
  /\ AppStep

NextApp ==
  \/ Click(MaxCaptures)
  \/ MountGranted(MaxCaptures)
  \/ MountDenied
  \/ Granted
  \/ Denied
  \/ Frame
  \/ Cleanup

SpecApp == InitCapture /\ [][NextApp]_vars

(***************************************************************************)
(* Claims                                                                  *)
(***************************************************************************)

C2_ShortHoldOfReadings ==
  ( /\ hold.phase \in { "Y", "back" }
    /\ hold.last - hold.since <= 60
    /\ out # Null )
  => PairOf(Val(out)) # hold.y

\* C2 as amended: once the displayed note is X, if the smoothed frequency
\* maps to another note Y on outputs that span at most 60 ms and then maps
\* to X again, with no reset in between, every one of those outputs carries
\* X: the displayed note does not change.
C2_ShortHoldOfSmoothedNote ==
  ( /\ cand.phase \in { "Y", "back" }
    /\ cand.last - cand.since <= 60 )
  => cand.shown = cand.x

\* the smoothed frequency mapped to Y on outputs 15 ms or more apart and
\* maps to X again; X is still displayed
C2_Witness ==
  /\ cand.phase = "back"
  /\ cand.last - cand.since \in 15..60
  /\ cand.shown = cand.x
  /\ out # Null
  /\ PairOf(Val(out)) = cand.x
  /\ smoother.pendingNote = Null

\* C3 as stated: once the displayed note is X, confident readings of
\* another note Y fed over calls that span at least 100 ms make process
\* return Y by the last of those calls.
C3_LongHoldOfReadings ==
  ( /\ hold.phase = "Y"
    /\ hold.last - hold.since >= HYSTERESIS_MS )
  => ( out # Null /\ PairOf(Val(out)) = hold.y )

\* C3 as amended: once the displayed note is X, if the smoothed frequency
\* maps to another note Y on outputs that span at least 100 ms, with no
\* output mapping elsewhere and no reset in between, the last of those
\* outputs carries Y.
C3_LongHoldOfSmoothedNote ==
  ( /\ cand.phase = "Y"
    /\ cand.last - cand.since >= HYSTERESIS_MS )
  => cand.shown = cand.y

\* the smoothed frequency has mapped to Y for exactly 100 ms and the call
\* has returned Y, which is now the displayed note
C3_Witness ==
  /\ cand.phase = "Y"
  /\ cand.last - cand.since = HYSTERESIS_MS
  /\ cand.last = clock
  /\ out # Null
  /\ PairOf(Val(out)) = cand.y
  /\ Displayed(smoother) = cand.y
  /\ cand.x # cand.y

\* C4: a process call with clarity < 0.85 returns null and leaves the
\* stability buffer empty; a clarity of exactly 0.85 is not gated (the
\* reading enters the stability buffer).
C4_ClarityGate ==
  call.op = "process" =>
    /\ call.result.clarity < MIN_CLARITY =>
         out = Null /\ smoother.stabilityBuffer = << >>
    /\ call.result.clarity = MIN_CLARITY =>
         /\ smoother.stabilityBuffer # << >>
         /\ smoother.stabilityBuffer[Len(smoother.stabilityBuffer)]
              = call.result.frequency

\* an unclear reading has emptied the stability buffer of a stabilizer that
\* had an EMA and a displayed note
C4_Witness ==
  /\ call.op = "process"
  /\ call.result.clarity < MIN_CLARITY
  /\ out = Null
  /\ smoother.stabilityBuffer = << >>
  /\ smoother.emaFrequency # Null
  /\ smoother.currentNote # Null

C6_NullOutsideRange ==
  ( /\ yin.stage = "corrected"
    /\ \/ yin.result.frequency < GUITAR_MIN_HZ * MilliHz
       \/ yin.result.frequency > GUITAR_MAX_HZ * MilliHz )
  => yin.ret = Null

\* C6 as amended: correctOctaveErrors returns null for every reading whose
\* frequency is below 75 Hz or above 2800 Hz, and for every reading above
\* 1400 Hz unless both lags are below halfLen and cmnd[lag2T] is less than
\* half of cmnd[lagT].
C6_NullOutsideRangeUnlessHalved ==
  LET cmnd == cumulativeMeanNormalizedDifference(frame.buffer,
                                                 HalfLen(frame.buffer))
      lagT == LagT(frame.sampleRate, yin.result.frequency)
      lag2T == Lag2T(frame.sampleRate, yin.result.frequency)
  IN ( /\ yin.stage = "corrected"
       /\ \/ yin.result.frequency < GUITAR_MIN_HZ * MilliHz
          \/ yin.result.frequency > 2 * GUITAR_MAX_HZ * MilliHz
          \/ /\ yin.result.frequency > GUITAR_MAX_HZ * MilliHz
             /\ ~ ( /\ lagT < HalfLen(frame.buffer)
                    /\ lag2T < HalfLen(frame.buffer)
                    /\ LessThanHalf(At(cmnd, lag2T), At(cmnd, lagT)) ) )
     => yin.ret = Null

\* a reading above 2800 Hz was halved and dropped all the same
C6_Witness ==
  LET cmnd == cumulativeMeanNormalizedDifference(frame.buffer,
                                                 HalfLen(frame.buffer))
      lagT == LagT(frame.sampleRate, yin.result.frequency)
      lag2T == Lag2T(frame.sampleRate, yin.result.frequency)
  IN /\ yin.stage = "corrected"
     /\ yin.result.frequency > 2 * GUITAR_MAX_HZ * MilliHz
     /\ lagT < HalfLen(frame.buffer)
     /\ lag2T < HalfLen(frame.buffer)
     /\ LessThanHalf(At(cmnd, lag2T), At(cmnd, lagT))
     /\ yin.ret = Null

\* C7 as stated: whenever lagT and lag2T are both below halfLen and
\* cmnd[lag2T] < 0.5 * cmnd[lagT], correctOctaveErrors returns a result
\* whose frequency is half the frequency of the reading.
C7_HalvedResult ==
  LET cmnd == cumulativeMeanNormalizedDifference(frame.buffer,
                                                 HalfLen(frame.buffer))
      lagT == LagT(frame.sampleRate, yin.result.frequency)
      lag2T == Lag2T(frame.sampleRate, yin.result.frequency)
  IN ( /\ yin.stage = "corrected"
       /\ lagT < HalfLen(frame.buffer)
       /\ lag2T < HalfLen(frame.buffer)
       /\ LessThanHalf(At(cmnd, lag2T), At(cmnd, lagT)) )
     => /\ yin.ret # Null
        /\ Val(yin.ret).frequency = Half(yin.result.frequency)

\* C7 as amended: whenever lagT and lag2T are both below halfLen and
\* cmnd[lag2T] < 0.5 * cmnd[lagT], correctOctaveErrors returns a result
\* whose frequency is half the frequency of the reading when that half
\* lies in [75, 1400] Hz, and null when it does not.
C7_HalvedResultInRange ==
  LET cmnd == cumulativeMeanNormalizedDifference(frame.buffer,
                                                 HalfLen(frame.buffer))
      lagT == LagT(frame.sampleRate, yin.result.frequency)
      lag2T == Lag2T(frame.sampleRate, yin.result.frequency)
  IN ( /\ yin.stage = "corrected"
       /\ lagT < HalfLen(frame.buffer)
       /\ lag2T < HalfLen(frame.buffer)
       /\ LessThanHalf(At(cmnd, lag2T), At(cmnd, lagT)) )
     => IF /\ yin.result.frequency >= 2 * GUITAR_MIN_HZ * MilliHz
           /\ yin.result.frequency <= 2 * GUITAR_MAX_HZ * MilliHz
          THEN /\ yin.ret # Null
               /\ Val(yin.ret).frequency = Half(yin.result.frequency)
          ELSE yin.ret = Null

\* a reading in the range whose sub-harmonic lag has a cmnd above 0 and
\* below half the cmnd of its own lag came back halved
C7_Witness ==
  LET cmnd == cumulativeMeanNormalizedDifference(frame.buffer,
                                                 HalfLen(frame.buffer))
      lagT == LagT(frame.sampleRate, yin.result.frequency)
      lag2T == Lag2T(frame.sampleRate, yin.result.frequency)
  IN /\ yin.stage = "corrected"
     /\ lagT < HalfLen(frame.buffer)
     /\ lag2T < HalfLen(frame.buffer)
     /\ LessThanHalf(At(cmnd, lag2T), At(cmnd, lagT))
     /\ At(cmnd, lag2T) > 0
     /\ yin.ret # Null
     /\ Val(yin.ret).frequency = Half(yin.result.frequency)
     /\ Val(yin.ret).frequency # yin.result.frequency

\* C8: a result of correctOctaveErrors has a frequency in [75, 1400] Hz
\* that is the frequency of the reading or half of it, and the clarity of
\* the reading.
C8_ResultInRange ==
  ( yin.stage = "corrected" /\ yin.ret # Null )
  => /\ Val(yin.ret).frequency >= GUITAR_MIN_HZ * MilliHz
     /\ Val(yin.ret).frequency <= GUITAR_MAX_HZ * MilliHz
     /\ \/ Val(yin.ret).frequency = yin.result.frequency
        \/ Val(yin.ret).frequency = Half(yin.result.frequency)
     /\ Val(yin.ret).clarity = yin.result.clarity

\* the reading detectPitch returned for the frame came back unchanged
C8_Witness ==
  /\ yin.stage = "corrected"
  /\ yin.detected.ret # Null
  /\ yin.result = Val(yin.detected.ret)
  /\ yin.ret = Some(yin.result)

\* C9: detectPitch returns null exactly when no lag tau in 2..halfLen-1
\* has cmnd[tau] < threshold; otherwise the lag it selects ends the
\* strictly decreasing run of cmnd that starts at the smallest such lag
\* (the next cmnd is not smaller, or the lag is halfLen - 1), and the
\* clarity returned is 1 - cmnd[selected].
C9_SelectedLag ==
  LET halfLen == HalfLen(frame.buffer)
      cmnd == cumulativeMeanNormalizedDifference(frame.buffer,
                                                 HalfLen(frame.buffer))
      below == { tau \in 2..(halfLen - 1) :
                   Less(At(cmnd, tau), DEFAULT_THRESHOLD) }
      selected == yin.detected.tauEstimate
  IN yin.stage # "frame" =>
       /\ yin.detected.ret = Null <=> below = { }
       /\ below # { } =>
            \E first \in below :
              /\ \A tau \in below : first <= tau
              /\ selected >= first
              /\ \A tau \in first..(selected - 1) :
                   Less(At(cmnd, tau + 1), At(cmnd, tau))
              /\ \/ selected = halfLen - 1
                 \/ AtLeast(At(cmnd, selected + 1), At(cmnd, selected))
              /\ Val(yin.detected.ret).clarity = 1000 - At(cmnd, selected)

\* detectPitch walked from the first lag below the threshold to a local
\* minimum inside the array
C9_Witness ==
  LET halfLen == HalfLen(frame.buffer)
      cmnd == cumulativeMeanNormalizedDifference(frame.buffer,
                                                 HalfLen(frame.buffer))
      selected == yin.detected.tauEstimate
  IN /\ yin.stage = "detected"
     /\ yin.detected.ret # Null
     /\ selected + 1 < halfLen
     /\ Less(At(cmnd, selected - 1), DEFAULT_THRESHOLD)
     /\ Less(At(cmnd, selected), At(cmnd, selected - 1))
     /\ AtLeast(At(cmnd, selected + 1), At(cmnd, selected))

\* C10: after 5 identical confident readings of frequency f, 33 ms apart,
\* fed to a fresh stabilizer, the 5th output has frequency f, the clarity of
\* the input, and the note, octave and cents of frequencyToNote(f); for
\* f = 110 Hz and clarity 0.95 that is A2 with |cents| < 5.
C10_FifthOutput ==
  streak.n = 5 =>
    /\ out # Null
    /\ Val(out).frequency = streak.frequency
    /\ Val(out).clarity = call.result.clarity
    /\ Val(out).note = frequencyToNote(streak.frequency).note
    /\ Val(out).octave = frequencyToNote(streak.frequency).octave
    /\ Val(out).cents = frequencyToNote(streak.frequency).cents
    /\ (streak.frequency = 110 * MilliHz /\ call.result.clarity = 950) =>
         /\ Val(out).note = "A"
         /\ Val(out).octave = 2
         /\ Abs(Val(out).cents) < 5

\* the fifth reading of 110 Hz with clarity 0.95 has been processed at 165 ms
C10_Witness ==
  /\ streak.n = 5
  /\ streak.frequency = 110 * MilliHz
  /\ call.result.clarity = 950
  /\ call.now = 5 * 33
  /\ out # Null


C15_JumpResets ==
  [][ ( /\ calls' = calls + 1
        /\ smoother.emaFrequency # Null
        /\ Confident(call'.result) )
      => IF Abs(Log2Cents(call'.result.frequency,
                          Val(smoother.emaFrequency))) > NOTE_CHANGE_CENTS
           THEN /\ out' = Null
                /\ smoother' = [ NewPitchSmoother EXCEPT
                                   !.stabilityBuffer =
                                     << call'.result.frequency >> ]
           ELSE /\ smoother'.emaFrequency # Null
                /\ smoother'.medianBuffer # << >>
                /\ smoother'.currentNote = smoother.currentNote
                   \/ smoother'.currentNote = smoother.pendingNote
                /\ Len(smoother'.stabilityBuffer) > 1 ]_vars

\* a stabilizer that had produced an output was reset by a reading: after
\* more than five confident readings and no reset() it is in its
\* construction-time state except for that reading
C15_Witness ==
  /\ call.op = "process"
  /\ calls > STABILITY_WINDOW
  /\ resetFrom = Null
  /\ out = Null
  /\ smoother = [ NewPitchSmoother EXCEPT
                    !.stabilityBuffer = << call.result.frequency >> ]


\* C16 as stated: when two consecutive non-null outputs of process, with no
\* reset() by the caller between them, carry different (note, octave)
\* pairs, the later call committed a pending candidate equal to its note
\* whose timestamp is at least 100 ms before that call's now.
C16_ChangeOnlyByCommit ==
  [][ ( /\ calls' = calls + 1
        /\ out' # Null
        /\ lastShown # Null
        /\ PairOf(Val(out')) # Val(lastShown) )
      => /\ NoteOf(smoother.pendingNote, smoother.pendingOctave)
              = PairOf(Val(out'))
         /\ smoother.pendingNoteTimestamp # Null
         /\ call'.now - Val(smoother.pendingNoteTimestamp) >= HYSTERESIS_MS
    ]_vars

\* C16 as amended: when two consecutive non-null outputs of process, with
\* no reset between them, neither by the caller nor by the note-change
\* detection, carry different (note, octave) pairs, the later call
\* committed a pending candidate equal to its note whose timestamp is at
\* least 100 ms before that call's now.
C16_ChangeOnlyByCommitOrReset ==
  [][ ( /\ calls' = calls + 1
        /\ out' # Null
        /\ lastShown # Null
        /\ Displayed(smoother) = Val(lastShown)
        /\ PairOf(Val(out')) # Val(lastShown) )
      => /\ NoteOf(smoother.pendingNote, smoother.pendingOctave)
              = PairOf(Val(out'))
         /\ smoother.pendingNoteTimestamp # Null
         /\ call'.now - Val(smoother.pendingNoteTimestamp) >= HYSTERESIS_MS
         /\ Displayed(smoother') = PairOf(Val(out'))
         /\ smoother'.pendingNote = Null
    ]_vars

\* an output has carried another note than the output before it, 100 ms
\* or more after the smoothed frequency first mapped to that note
C16_Witness ==
  /\ out # Null
  /\ lastShown = Some(PairOf(Val(out)))
  /\ cand.phase = "Y"
  /\ cand.x # cand.y
  /\ cand.shown = cand.y
  /\ cand.y = PairOf(Val(out))
  /\ cand.last - cand.since >= HYSTERESIS_MS
  /\ smoother.pendingNote = Null


\* C17: on an output of a stabilizer that has a current note, a mapped
\* note equal to the current note clears the pending candidate; a mapped
\* note that differs from the current note and from the pending candidate
\* becomes the pending candidate with the timestamp now; a mapped note
\* equal to the pending candidate leaves the candidate and its timestamp as
\* they are and the current note is returned while now - timestamp < 100
\* ms, and from 100 ms on the candidate becomes current and pending is
\* cleared.
C17_PendingTimer ==
  [][ ( /\ calls' = calls + 1
        /\ out' # Null
        /\ Displayed(smoother) # Null )
      => IF MappedNote(Val(out').frequency) = Displayed(smoother)
           THEN /\ PairOf(Val(out')) = Displayed(smoother)
                /\ Displayed(smoother') = Displayed(smoother)
                /\ smoother'.pendingNote = Null
                /\ smoother'.pendingOctave = Null
                /\ smoother'.pendingNoteTimestamp = Null
         ELSE IF MappedNote(Val(out').frequency)
                   # NoteOf(smoother.pendingNote, smoother.pendingOctave)
           THEN /\ PairOf(Val(out')) = Displayed(smoother)
                /\ Displayed(smoother') = Displayed(smoother)
                /\ NoteOf(smoother'.pendingNote, smoother'.pendingOctave)
                     = MappedNote(Val(out').frequency)
                /\ smoother'.pendingNoteTimestamp = Some(call'.now)
         ELSE IF call'.now - Val(smoother.pendingNoteTimestamp)
                   >= HYSTERESIS_MS
           THEN /\ PairOf(Val(out')) = MappedNote(Val(out').frequency)
                /\ Displayed(smoother') = MappedNote(Val(out').frequency)
                /\ smoother'.pendingNote = Null
                /\ smoother'.pendingOctave = Null
                /\ smoother'.pendingNoteTimestamp = Null
           ELSE /\ PairOf(Val(out')) = Displayed(smoother)
                /\ Displayed(smoother') = Displayed(smoother)
                /\ smoother'.pendingNote = smoother.pendingNote
                /\ smoother'.pendingOctave = smoother.pendingOctave
                /\ smoother'.pendingNoteTimestamp
                     = smoother.pendingNoteTimestamp ]_vars

\* the latest output mapped to the pending candidate, which has been
\* pending since an earlier call, less than 100 ms ago: the current note
\* was returned and the timestamp kept
C17_Witness ==
  /\ out # Null
  /\ smoother.pendingNoteTimestamp # Null
  /\ Val(smoother.pendingNoteTimestamp) < call.now
  /\ call.now - Val(smoother.pendingNoteTimestamp) < HYSTERESIS_MS
  /\ MappedNote(Val(out).frequency)
       = NoteOf(smoother.pendingNote, smoother.pendingOctave)
  /\ PairOf(Val(out)) = Displayed(smoother)
  /\ PairOf(Val(out)) # MappedNote(Val(out).frequency)


\* the stability buffer as process sees it at the spread test: the last
\* readings in arrival order, the oldest dropped beyond five
LastReadings(this, frequency) ==
  IF Len(this.stabilityBuffer) >= STABILITY_WINDOW
    THEN Append(Tail(this.stabilityBuffer), frequency)
    ELSE Append(this.stabilityBuffer, frequency)

\* the median buffer after one more reading: arrival order, the oldest
\* dropped beyond five
LastMedians(this, frequency) ==
  IF Len(this.medianBuffer) >= MEDIAN_WINDOW
    THEN Append(Tail(this.medianBuffer), frequency)
    ELSE Append(this.medianBuffer, frequency)

Steady(frequency) == [ i \in 1..STABILITY_WINDOW |-> frequency ]

\* the hysteresis step leaves the triplet as it is: the note of the EMA is
\* the current note with no candidate pending, or it is the candidate,
\* pending for less than 100 ms
Settled(this, now) ==
  LET mapped == MappedNote(Val(this.emaFrequency)) IN
    /\ Displayed(this) # Null
    /\ \/ /\ Displayed(this) = mapped
          /\ this.pendingNote = Null
          /\ this.pendingOctave = Null
          /\ this.pendingNoteTimestamp = Null
       \/ /\ Displayed(this) # mapped
          /\ NoteOf(this.pendingNote, this.pendingOctave) = mapped
          /\ this.pendingNoteTimestamp # Null
          /\ now - Val(this.pendingNoteTimestamp) < HYSTERESIS_MS

\* every assignment of process(result, now) stores the value already held
Idle(this, result, now) ==
  \/ /\ ~ Confident(result)
     /\ this.stabilityBuffer = << >>
  \/ /\ Confident(result)
     /\ ~ Jumped(this, result.frequency)
     /\ this.stabilityBuffer = Steady(result.frequency)
     /\ this.medianBuffer = Steady(result.frequency)
     /\ this.emaFrequency # Null
     /\ EmaStep(this.emaFrequency, result.frequency) = Val(this.emaFrequency)
     /\ Settled(this, now)

\* C19 as stated: the stabilizer state after a process call differs from
\* the state before it, whatever the call returns.
C19_ProcessMutates ==
  [][ calls' = calls + 1 => smoother' # smoother ]_vars

\* C19 as amended: the stabilizer state after a process call differs from
\* the state before it, whatever the call returns, except when every value
\* the call assigns is the value already held: a reading below the clarity
\* gate on an empty stability buffer, or a confident reading equal to the
\* five entries of both buffers that leaves the EMA and the hysteresis
\* triplet as they are; then the state is the same.
C19_ProcessMutatesUnlessIdle ==
  [][ calls' = calls + 1 =>
        ( smoother' = smoother <=> Idle(smoother, call'.result, call'.now) )
    ]_vars

\* a process call below the clarity gate has returned nothing on a
\* stabilizer that had converged, whose stability buffer is now empty
C19_Witness ==
  /\ call.op = "process"
  /\ ~ Confident(call.result)
  /\ out = Null
  /\ smoother.stabilityBuffer = << >>
  /\ smoother.emaFrequency # Null
  /\ Len(smoother.medianBuffer) >= 1


\* C20: after any sequence of process and reset calls the stability buffer
\* and the median buffer hold at most 5 entries each, in arrival order: a
\* process call leaves each buffer as it was, empties it, or appends its
\* reading at the end, dropping the first entry when there were five; a
\* call that returns a result has appended its reading to both, and reset
\* empties both.
C20_BoundedFifo ==
  [][ /\ Len(smoother'.stabilityBuffer) <= STABILITY_WINDOW
      /\ Len(smoother'.medianBuffer) <= MEDIAN_WINDOW
      /\ calls' = calls + 1 =>
           LET f == call'.result.frequency IN
             /\ smoother'.stabilityBuffer
                  \in { << >>, << f >>, LastReadings(smoother, f) }
             /\ smoother'.medianBuffer
                  \in { << >>, smoother.medianBuffer,
                        LastMedians(smoother, f) }
             /\ out' # Null =>
                  /\ smoother'.stabilityBuffer = LastReadings(smoother, f)
                  /\ smoother'.medianBuffer = LastMedians(smoother, f)
      /\ calls' = calls =>
           /\ smoother'.stabilityBuffer = << >>
           /\ smoother'.medianBuffer = << >>
    ]_vars

\* both buffers are full after six results in a row, the first reading of
\* the median buffer dropped, and hold readings of two frequencies
C20_Witness ==
  /\ calls >= 2 * STABILITY_WINDOW
  /\ out # Null
  /\ Len(smoother.medianBuffer) = MEDIAN_WINDOW
  /\ Len(smoother.stabilityBuffer) = STABILITY_WINDOW
  /\ smoother.medianBuffer[1] # smoother.medianBuffer[MEDIAN_WINDOW]
  /\ smoother.stabilityBuffer[1] # smoother.stabilityBuffer[2]


\* C11: every tick of the capture loop hands exactly one state to onState
\* and requests exactly one animation frame; the state is 'detected', with
\* the note, octave, cents, frequency and clarity of the SmoothedResult,
\* if and only if detectPitch, correctOctaveErrors and smoother.process all
\* returned a value on that frame, and 'listening' otherwise.
C11_TickEmitsOnce ==
  [][ tick'.n = tick.n + 1 =>
        LET raw == TickAnalysis[frame'.buffer].detected.ret
            corrected == TickAnalysis[frame'.buffer].corrected
            smoothed ==
              IF raw = Null \/ corrected = Null THEN Null
              ELSE process(smoother, Val(corrected), clock').out
        IN  /\ Len(tick'.states) = 1
            /\ tuner' = tick'.states[1]
            /\ tick'.frames = 1
            /\ Cardinality(browser'.frames \ browser.frames) = 1
            /\ browser'.requested = browser.requested + 1
            /\ capture'.rafId = Some(browser'.requested)
            /\ tuner'.status = "detected" <=> smoothed # Null
            /\ smoothed # Null => tuner' = DetectedState(Val(smoothed))
            /\ smoothed = Null => tuner' = [ status |-> "listening" ]
    ]_vars

\* a tick has handed a 'detected' state to onState, the fifth or later of
\* its session, and its next frame is pending
C11_Witness ==
  /\ tick.n >= STABILITY_WINDOW
  /\ tick.states # << >>
  /\ tuner.status = "detected"
  /\ out # Null
  /\ tuner.frequency = Val(out).frequency
  /\ capture.rafId # Null
  /\ Val(capture.rafId) \in browser.frames


\* C12: stop(), restart() and a start() that fails each leave the
\* stabilizer in its construction-time state, and the first frame a
\* session processes after it started or restarted finds the stabilizer in
\* its construction-time state.
C12_FreshOnSessionStart ==
  [][ /\ ( tick'.n = tick.n + 1 /\ tick.fresh )
           => smoother = NewPitchSmoother
      /\ ( browser'.stopped /\ ~ browser.stopped )
           => smoother' = NewPitchSmoother
      /\ ( browser.started /\ browser'.contexts = browser.contexts + 1 )
           => smoother' = NewPitchSmoother
      /\ ( browser'.media # browser.media /\ browser.started
           /\ capture'.rafId = Null )
           => smoother' = NewPitchSmoother
    ]_vars

\* the first tick after a restart has run, the stabilizer having held
\* state of the session before when the restart tore it down
C12_Witness ==
  /\ tick.first
  /\ tick.n >= 2
  /\ browser.contexts >= 2
  /\ resetFrom # Null
  /\ "stabilityBuffer" \in Val(resetFrom)
  /\ capture.rafId # Null


\* the period 360 / k lies in the lags detectPitch tries: 2 <= period and
\* period < halfLen
InLagRange(k, halfLen) == 2 * k <= 360 /\ 360 < halfLen * k

\* the period 360 / k is at least 16 samples and at most halfLen - 2
InInterpolatedRange(k, halfLen) == 16 * k <= 360 /\ 360 <= (halfLen - 2) * k

\* the reading is within 0.5% of sampleRate * k / 360 Hz, with clarity
\* above 0.9
CloseTo(ret, k, sampleRate) ==
  /\ ret # Null
  /\ Val(ret).frequency # NaN
  /\ Abs(360 * Val(ret).frequency - 1000 * sampleRate * k)
       <= 5 * sampleRate * k
  /\ Val(ret).clarity > 900

RestartsInFlight == { pending \in browser.media : pending.caller = "restart" }

\* C21: restart() is non-reentrant. While a restart is in progress
\* (restarting is true) no step other than the settling of its start() or a
\* stop() of the capture tears anything down or starts anything: a further
\* restart() from track.onended or from handleResume returns at once. At
\* most one start() launched by restart is in flight, restarting is true
\* exactly while it is, and once it settles restarting is false, with
\* 'idle' emitted when start() threw.
C21_RestartNonReentrant ==
  [][ /\ Cardinality(RestartsInFlight') <= 1
      /\ capture'.restarting <=> RestartsInFlight' # { }
      /\ ( capture.restarting /\ browser'.media = browser.media
                              /\ browser'.stopped = browser.stopped )
         => /\ browser'.contexts = browser.contexts
            /\ capture'.audioContext = capture.audioContext
            /\ capture'.stream = capture.stream
            /\ capture'.rafId = capture.rafId
            /\ capture'.restarting
            /\ tuner' = tuner
      /\ ( capture.restarting /\ RestartsInFlight' = { } )
         => /\ ~ capture'.restarting
            /\ IF capture'.stream = "null"
                 THEN tuner'.status = "idle" /\ capture'.rafId = Null
                 ELSE tuner'.status = "listening" /\ capture'.rafId # Null
    ]_vars

\* C21 witness: a restart is in flight and a rejected audioContext.resume()
\* of the context it closed is still to call restart()
C21_Witness ==
  /\ capture.restarting
  /\ Cardinality(RestartsInFlight) = 1
  /\ \E context \in browser.resumes : capture.audioContext # Some(context)


\* every two of the frequencies are within the given number of cents
WithinCents(readings, cents) ==
  \A i, j \in 1..Len(readings) :
    Abs(Log2Cents(readings[i], readings[j])) <= cents

\* C22: process returns a non-null result only when the stability buffer
\* holds 5 readings with spread <= 30 cents: that call and the four process
\* calls immediately before it all had clarity >= 0.85, their frequencies
\* lie within 30 cents of each other, and neither reset() nor the reset of
\* the note-change detection occurred after the first of those five
\* readings was accepted.
C22_ResultNeedsFiveStable ==
  [][ ( calls' = calls + 1 /\ out' # Null )
      => /\ Len(smoother'.stabilityBuffer) = STABILITY_WINDOW
         /\ stabilitySpreadCents(smoother') <= STABILITY_SPREAD_CENTS
         /\ Len(recent') = STABILITY_WINDOW
         /\ recent' = smoother'.stabilityBuffer
         /\ WithinCents(recent', STABILITY_SPREAD_CENTS) ]_vars

\* C22 witness: a result returned on five readings of two frequencies,
\* after earlier calls that a low clarity, a reset or a jump cut off
C22_Witness ==
  /\ call.op = "process"
  /\ out # Null
  /\ calls > STABILITY_WINDOW + 1
  /\ Len(recent) = STABILITY_WINDOW
  /\ recent[1] # recent[STABILITY_WINDOW]
  /\ lastShown # Null


\* the fields of a stabilizer other than the stability buffer
Kept(this) ==
  [ f \in DOMAIN this \ { "stabilityBuffer" } |-> this[f] ]

\* C23: a process call that returns null without triggering the reset of
\* the note-change detection (low clarity, fewer than 5 stable readings,
\* or spread > 30 cents) leaves the median buffer, the EMA, the current
\* note and octave and the pending note, octave and timestamp unchanged:
\* low-clarity frames never clear the EMA or the displayed note, and a
\* pending candidate and its timestamp survive such calls.
C23_NullKeepsSmoothing ==
  [][ ( /\ calls' = calls + 1
        /\ out' = Null
        /\ ~ ( Confident(call'.result)
               /\ Jumped(smoother, call'.result.frequency) ) )
      => Kept(smoother') = Kept(smoother) ]_vars

\* C23 witness: a pending candidate has survived a call of low clarity and
\* then a confident call that returned null
C23_Witness ==
  /\ call.op = "process"
  /\ out = Null
  /\ Len(smoother.stabilityBuffer) = 1
  /\ calls > STABILITY_WINDOW + 2
  /\ smoother.pendingNote # Null
  /\ smoother.pendingNoteTimestamp # Null
  /\ smoother.emaFrequency # Null


\* the stabilizer holds a pending candidate
HasPending(this) ==
  \/ this.pendingNote # Null
  \/ this.pendingOctave # Null
  \/ this.pendingNoteTimestamp # Null

\* C24: in every reachable state of the stabilizer, the EMA is absent
\* exactly when the median buffer is empty, exactly when currentNote is
\* null, exactly when currentOctave is null; and whenever a pending
\* candidate exists, pendingNote, pendingOctave and pendingNoteTimestamp
\* are all non-null, a current note exists, and the pending (note, octave)
\* differs from the current (note, octave).
C24_FieldsAgree ==
  /\ ( smoother.emaFrequency = Null ) <=> ( smoother.medianBuffer = << >> )
  /\ ( smoother.emaFrequency = Null ) <=> ( smoother.currentNote = Null )
  /\ ( smoother.emaFrequency = Null ) <=> ( smoother.currentOctave = Null )
  /\ HasPending(smoother)
       => /\ smoother.pendingNote # Null
          /\ smoother.pendingOctave # Null
          /\ smoother.pendingNoteTimestamp # Null
          /\ Displayed(smoother) # Null
          /\ NoteOf(smoother.pendingNote, smoother.pendingOctave)
               # Displayed(smoother)

\* C24 witness: a stabilizer that was reset and has since come to display
\* a note and to hold a pending candidate
C24_Witness ==
  /\ resetFrom # Null
  /\ HasPending(smoother)
  /\ smoother.emaFrequency # Null
  /\ Len(smoother.medianBuffer) >= 2


\* C25: every non-null result of detectPitch(buffer, sampleRate, threshold)
\* with 0 < threshold <= 1 has clarity in (1 - threshold, 1] and frequency
\* > 0; with the default threshold 0.15 the clarity is above 0.85, so in
\* the pipeline of the capture (detectPitch, correctOctaveErrors, which
\* passes the clarity through, then process) the clarity gate of the
\* stabilizer never fires.
C25_ClarityAboveGate ==
  /\ ( yin.stage \in { "detected", "corrected" } /\ yin.detected.ret # Null )
       => /\ Val(yin.detected.ret).clarity > 1000 - frame.threshold
          /\ Val(yin.detected.ret).clarity <= 1000
          /\ Val(yin.detected.ret).frequency > 0
  /\ ( yin.stage = "corrected" /\ yin.ret # Null )
       => Val(yin.ret).clarity = yin.result.clarity
  /\ call.op = "process"
       => /\ call.result.clarity > MIN_CLARITY
          /\ ~ ClarityGate(call.result)
          /\ smoother.stabilityBuffer # << >>
          /\ smoother.stabilityBuffer[Len(smoother.stabilityBuffer)]
               = call.result.frequency

\* C25 witness: a reading that detectPitch returned with the default
\* threshold and a clarity between 0.85 and 0.87 has passed
\* correctOctaveErrors and process
C25_Witness ==
  /\ call.op = "process"
  /\ frame.threshold = DEFAULT_THRESHOLD
  /\ yin.stage = "corrected"
  /\ Some(call.result) = yin.ret
  /\ call.result.clarity <= 870


\* C26: stop() is final for a capture. After stop() has run, under every
\* interleaving with an in-flight start(), restart() or handleResume()
\* (a pending getUserMedia or audioContext.resume() that later resolves or
\* rejects), the capture never again emits 'listening' or 'detected' and
\* schedules no further animation frame, and once the pending promises
\* have settled it holds no stream and no audio context.
C26_StopIsFinal ==
  [][ browser.stopped
      => /\ \A i \in 1..Len(tick'.states) : tick'.states[i].status = "idle"
         /\ tick'.frames = 0
         /\ browser'.frames = { }
         /\ ( browser'.media = { } /\ browser'.resumes = { } )
              => /\ capture'.stream = "null"
                 /\ capture'.audioContext = Null
                 /\ capture'.rafId = Null ]_vars


\* C26 witness: stop() has run on a capture whose handleResume still awaits
\* audioContext.resume()
C26_Witness ==
  /\ browser.stopped
  /\ browser.resumes # { }
  /\ capture.audioContext = Null
  /\ capture.stream = "null"
  /\ tuner.status = "idle"


\* the captures that hold a resource or still await the microphone
Alive ==
  { i \in 1..Len(app.captures) :
      \/ app.captures[i].pending
      \/ app.captures[i].audioContext
      \/ app.captures[i].stream
      \/ app.captures[i].rafId }

\* C27: the App never has more than one capture session alive. The guard
\* state().status !== "idle" of startCapture / handleStart keeps
\* createAudioCapture from being called again while a capture is starting
\* or running, under every interleaving of clicks and the on-mount
\* auto-start, so no capture is alive whose handle has been overwritten.
C27_OneCaptureAlive ==
  /\ Cardinality(Alive) <= 1
  /\ \A i \in Alive : app.capture = Some(i)

\* C27 witness: a second trigger has passed the guard while the first
\* capture.start() awaited the microphone, and both captures run
C27_Witness ==
  /\ Len(app.captures) = 2
  /\ app.capture = Some(2)
  /\ app.captures[1].stream /\ app.captures[1].rafId
  /\ app.captures[2].stream /\ app.captures[2].rafId
  /\ tuner.status # "idle"

====
